---- MODULE Spec2Model ----
(***************************************************************************)
(* A model of the mock backend (src/ios-ide/mock-backend): the in-memory   *)
(* request registry of main.py with its background simulator               *)
(* (simulate_processing), the entity store with its create, update and     *)
(* read handlers, and the clearing run of setup_default_user.py.           *)
(*                                                                         *)
(* The registry runs on one asyncio event loop: a handler or a stretch of  *)
(* a coroutine between two awaits is one atomic step.                      *)
(***************************************************************************)
EXTENDS Integers, Sequences, FiniteSets, TLC

\* ------------------------------------------------------------------ bounds
\* Requests submitted in one behaviour of Spec (several simulators interleave).
MaxRequests == 2
\* Requests submitted in one behaviour of SpecTimed (unit-step clock).
MaxTimedRequests == 1
\* Requests submitted in one behaviour of SpecApi (the read handlers).
MaxApiRequests == 1
\* Writes the entity store commits in one behaviour of SpecStore.
MaxWrites == 5
\* Writes to the task table in one behaviour of SpecTasks.
MaxTaskWrites == 3
\* Longest request text.
MaxTextLen == 4

\* --------------------------------------------------------- program constants
\* asyncio.sleep(5): the initial processing time.
INITIAL_DELAY == 5
\* asyncio.sleep(2): the delay before each task update.
TASK_DELAY == 2
\* 4 + (len % 4): the base number of tasks and the modulus.
BASE_TASKS == 4
LEN_MODULUS == 4
\* hash(request_id) % 4 == 0: the modulus of the failure draw.
HASH_MODULUS == 4
\* update_data["status_id"] == 3: the id of the Done status.
DONE_STATUS_ID == 3

VARIABLES
    requests_storage,   \* request id -> [request, status, ready]
    tasks_storage,      \* request id -> sequence of [id, name, status, description]
    sim,                \* request id -> the simulate_processing coroutine: [pc, i, n, timer],
                        \*   n the length of its local list `tasks` once it has read it
    age,                \* request id -> time units since submit_request stored it,
                        \*   counted up to INITIAL_DELAY (a history variable)
    since,              \* request id -> time units since submit or since the simulator
                        \*   last resumed, counted up to INITIAL_DELAY (a history variable)
    uuid_count,         \* how many times uuid.uuid4() has been called
    hash_seed,          \* the process's string-hash randomisation (fixed at start-up)
    response,           \* what the last handler returned; NoResponse after any other step
    users,              \* table users: id -> row
    git_projects,       \* table git_projects: id -> row
    agent_chats,        \* table agent_chats: id -> row
    agent_tasks,        \* table agent_tasks: id -> row
    id_seq,             \* table name -> the last value of its primary-key sequence
    now,                \* the clock read by func.now() and datetime.now(): the instant
                        \*   of the next write, counted in committed writes (instants
                        \*   are only ever compared)
    txn                 \* the session of setup_default_user.py: where its clearing run
                        \*   stands and the rows its open transaction has deleted

registry_vars == <<requests_storage, tasks_storage, sim, age, since, uuid_count, hash_seed>>

store_vars == <<users, git_projects, agent_chats, agent_tasks, id_seq, now, txn>>

vars == <<registry_vars, store_vars, response>>

\* ----------------------------------------------------------------- helpers
Min(a, b) == IF a < b THEN a ELSE b

Max(a, b) == IF a > b THEN a ELSE b

\* The keys of a dict whose keys are uuid tokens, in insertion order: tokens are
\* numbered in the order uuid4() returned them, so insertion order is ascending.
RECURSIVE KeysInOrder(_)
KeysInOrder(S) ==
    IF S = {} THEN <<>>
    ELSE LET m == CHOOSE x \in S : \A y \in S : x <= y
         IN  <<m>> \o KeysInOrder(S \ {m})

\* A text of n characters (only len(text) is read by the code).
TextOfLen(n) == [k \in 1..n |-> "x"]

Texts == {TextOfLen(n) : n \in 0..MaxTextLen}

\* The values of the process's hash randomisation that are told apart.
HashSeeds == 0..(HASH_MODULUS - 1)

\* ----------------------------------------------------------------- library
\* uuid.uuid4(): the n-th call returns a token no earlier call returned.
uuid4(n) == n

\* hash(s) of an identifier: a fixed function of the identifier for the life of
\* the process, different from process to process (hash randomisation).
PyHash(id) == id + hash_seed

\* ------------------------------------------------------------------- data
MOCK_TASKS == <<
    [name |-> "Initialize Project", description |-> "Setting up project structure and dependencies"],
    [name |-> "Data Processing", description |-> "Processing and analyzing input data"],
    [name |-> "API Integration", description |-> "Connecting to external services and APIs"],
    [name |-> "Model Training", description |-> "Training machine learning models"],
    [name |-> "Quality Assurance", description |-> "Running tests and validation checks"],
    [name |-> "Deployment", description |-> "Deploying to production environment"],
    [name |-> "Monitoring Setup", description |-> "Setting up monitoring and alerts"],
    [name |-> "Documentation", description |-> "Creating and updating documentation"] >>

NoId == -1

NoResponse == [op |-> "none", arg |-> NoId, code |-> 0, body |-> [detail |-> ""]]

HTTPException(op, arg, status_code, detail) ==
    [op |-> op, arg |-> arg, code |-> status_code, body |-> [detail |-> detail]]

\* ----------------------------------------------------------- submit_request
\* A variant of NumTasks that takes the remainder of the length by 3.
NumTasks_WrongModulus(text) == Min(Len(MOCK_TASKS), BASE_TASKS + (Len(text) % 3))

\* A variant of NumTasks that starts from five tasks.
NumTasks_BaseFive(text) == Min(Len(MOCK_TASKS), 5 + (Len(text) % LEN_MODULUS))

\* num_tasks = min(len(MOCK_TASKS), 4 + (len(request.request) % 4))
NumTasks(text) == Min(Len(MOCK_TASKS), BASE_TASKS + (Len(text) % LEN_MODULUS))

\* A variant of InitialStatus that starts every task pending.
InitialStatus_AllPending(i) == "pending"

\* The status a task is created with.
InitialStatus(i) == IF i = 0 THEN "in_progress" ELSE "pending"

\* The task list built by the loop over MOCK_TASKS[:num_tasks]; the k-th task
\* (index k-1) takes the (k+1)-th uuid drawn by the handler.
NewTasks(text, first_uuid) ==
    [k \in 1..NumTasks(text) |->
        [id          |-> uuid4(first_uuid + k),
         name        |-> MOCK_TASKS[k].name,
         status      |-> InitialStatus(k - 1),
         description |-> MOCK_TASKS[k].description]]

\* A variant of NewRequest that stores the request as already ready.
NewRequest_BornReady(text) == [request |-> text, status |-> "ready", ready |-> TRUE]

NewRequest(text) == [request |-> text, status |-> "processing", ready |-> FALSE]

\* A variant of submit_request that files the task list under the identifier of
\* its first task.
submit_request_TasksUnderTaskId(text, max) ==
    /\ Cardinality(DOMAIN requests_storage) < max
    /\ LET request_id == uuid4(uuid_count)
       IN  /\ requests_storage' = (request_id :> NewRequest(text)) @@ requests_storage
           /\ tasks_storage' =
                 (uuid4(uuid_count + 1) :> NewTasks(text, uuid_count)) @@ tasks_storage
           /\ sim' = (request_id :> [pc |-> "scheduled", i |-> 0, n |-> 0, timer |-> 0]) @@ sim
           /\ age' = (request_id :> 0) @@ age
           /\ since' = (request_id :> 0) @@ since
           /\ uuid_count' = uuid_count + 1 + NumTasks(text)
           /\ response' = [op |-> "submit_request", arg |-> NoId, code |-> 200,
                           body |-> [request_id |-> request_id, status |-> "processing"]]
    /\ UNCHANGED <<hash_seed, store_vars>>

\* POST /api/requests. A dict assignment replaces what the key held. asyncio.create_task
\* schedules the simulator, which has not run when the handler returns.
submit_request(text, max) ==
    /\ Cardinality(DOMAIN requests_storage) < max
    /\ LET request_id == uuid4(uuid_count)
       IN  /\ requests_storage' = (request_id :> NewRequest(text)) @@ requests_storage
           /\ tasks_storage' = (request_id :> NewTasks(text, uuid_count)) @@ tasks_storage
           /\ sim' = (request_id :> [pc |-> "scheduled", i |-> 0, n |-> 0, timer |-> 0]) @@ sim
           /\ age' = (request_id :> 0) @@ age
           /\ since' = (request_id :> 0) @@ since
           /\ uuid_count' = uuid_count + 1 + NumTasks(text)
           /\ response' = [op |-> "submit_request", arg |-> NoId, code |-> 200,
                           body |-> [request_id |-> request_id, status |-> "processing"]]
    /\ UNCHANGED <<hash_seed, store_vars>>

\* ------------------------------------------------------ simulate_processing
\* A variant of TaskTransition that compares the index with len(tasks), which no
\* index equals.
TaskTransition_LastOffByOne(i, n, request_id) ==
    IF i = 0 THEN "completed"
    ELSE IF i = 1 THEN "in_progress"
    ELSE IF i = n
         THEN (IF PyHash(request_id) % HASH_MODULUS = 0 THEN "failed" ELSE "completed")
    ELSE "completed"

\* A variant of TaskTransition whose failure draw is inverted.
TaskTransition_FailsUnlessZero(i, n, request_id) ==
    IF i = 0 THEN "completed"
    ELSE IF i = 1 THEN "in_progress"
    ELSE IF i = n - 1
         THEN (IF PyHash(request_id) % HASH_MODULUS = 0 THEN "completed" ELSE "failed")
    ELSE "completed"

\* The status the loop body writes to the task at index i of a list of n tasks.
TaskTransition(i, n, request_id) ==
    IF i = 0 THEN "completed"
    ELSE IF i = 1 THEN "in_progress"
    ELSE IF i = n - 1
         THEN (IF PyHash(request_id) % HASH_MODULUS = 0 THEN "failed" ELSE "completed")
    ELSE "completed"

\* await asyncio.sleep(delay): the time the coroutine has still to sleep. Where
\* the clock is not modelled (clocked = FALSE) the sleep is a plain suspension
\* that may end at any later step.
asyncio_sleep(delay, clocked) == IF clocked THEN delay ELSE 0

\* A variant of sim_start that sleeps the per-task delay instead of the initial one.
sim_start_ShortSleep(r, clocked) ==
    /\ sim[r].pc = "scheduled"
    /\ sim' = [sim EXCEPT ![r] = [pc |-> "sleep_initial", i |-> 0, n |-> 0,
                                  timer |-> asyncio_sleep(TASK_DELAY, clocked)]]
    /\ response' = NoResponse
    /\ UNCHANGED <<requests_storage, tasks_storage, age, since, uuid_count, hash_seed, store_vars>>

\* The coroutine created by asyncio.create_task starts and suspends at
\* `await asyncio.sleep(5)`.
sim_start(r, clocked) ==
    /\ sim[r].pc = "scheduled"
    /\ sim' = [sim EXCEPT ![r] = [pc |-> "sleep_initial", i |-> 0, n |-> 0,
                                  timer |-> asyncio_sleep(INITIAL_DELAY, clocked)]]
    /\ response' = NoResponse
    /\ UNCHANGED <<requests_storage, tasks_storage, age, since, uuid_count, hash_seed, store_vars>>

\* The sleep of the coroutine is over when its timer has run down.
Resumable(r, pc) == sim[r].pc = pc /\ sim[r].timer = 0

\* A variant of NextSuspension whose loop stops one task early.
NextSuspension_EarlyExit(done, n, clocked) ==
    IF done + 1 < n
    THEN [pc |-> "sleep_task", i |-> done, n |-> n,
          timer |-> asyncio_sleep(TASK_DELAY, clocked)]
    ELSE [pc |-> "done", i |-> done, n |-> n, timer |-> 0]

\* Where the coroutine suspends next once it has handled index `done` tasks of n:
\* at the sleep of the next loop iteration, or not at all.
NextSuspension(done, n, clocked) ==
    IF done < n
    THEN [pc |-> "sleep_task", i |-> done, n |-> n,
          timer |-> asyncio_sleep(TASK_DELAY, clocked)]
    ELSE [pc |-> "done", i |-> done, n |-> n, timer |-> 0]

\* A variant of sim_mark_ready that sets the flag and leaves the status word.
sim_mark_ready_FlagOnly(r, clocked) ==
    /\ Resumable(r, "sleep_initial")
    /\ requests_storage' =
          IF r \in DOMAIN requests_storage
          THEN [requests_storage EXCEPT ![r].ready = TRUE]
          ELSE requests_storage
    /\ LET tasks == IF r \in DOMAIN tasks_storage THEN tasks_storage[r] ELSE <<>>
       IN  sim' = [sim EXCEPT ![r] = NextSuspension(0, Len(tasks), clocked)]
    /\ since' = [since EXCEPT ![r] = 0]
    /\ response' = NoResponse
    /\ UNCHANGED <<tasks_storage, age, uuid_count, hash_seed, store_vars>>

\* A variant of sim_mark_ready that runs only in answer to a status poll of its
\* request.
sim_mark_ready_WhenPolled(r, clocked) ==
    /\ Resumable(r, "sleep_initial")
    /\ response.op = "get_request_status"
    /\ response.arg = r
    /\ requests_storage' =
          IF r \in DOMAIN requests_storage
          THEN [requests_storage EXCEPT ![r].ready = TRUE, ![r].status = "ready"]
          ELSE requests_storage
    /\ LET tasks == IF r \in DOMAIN tasks_storage THEN tasks_storage[r] ELSE <<>>
       IN  sim' = [sim EXCEPT ![r] = NextSuspension(0, Len(tasks), clocked)]
    /\ since' = [since EXCEPT ![r] = 0]
    /\ response' = NoResponse
    /\ UNCHANGED <<tasks_storage, age, uuid_count, hash_seed, store_vars>>

\* A variant of sim_mark_ready that stores the ready flag without testing that the
\* request is still registered, creating a record for it when it is not.
sim_mark_ready_Recreates(r, clocked) ==
    /\ Resumable(r, "sleep_initial")
    /\ requests_storage' =
          IF r \in DOMAIN requests_storage
          THEN [requests_storage EXCEPT ![r].ready = TRUE, ![r].status = "ready"]
          ELSE (r :> [request |-> <<>>, status |-> "ready", ready |-> TRUE]) @@ requests_storage
    /\ LET tasks == IF r \in DOMAIN tasks_storage THEN tasks_storage[r] ELSE <<>>
       IN  sim' = [sim EXCEPT ![r] = NextSuspension(0, Len(tasks), clocked)]
    /\ since' = [since EXCEPT ![r] = 0]
    /\ response' = NoResponse
    /\ UNCHANGED <<tasks_storage, age, uuid_count, hash_seed, store_vars>>

\* After the initial sleep: mark the request ready, read the task list and enter
\* the loop, up to the first `await asyncio.sleep(2)`.
sim_mark_ready(r, clocked) ==
    /\ Resumable(r, "sleep_initial")
    /\ requests_storage' =
          IF r \in DOMAIN requests_storage
          THEN [requests_storage EXCEPT ![r].ready = TRUE, ![r].status = "ready"]
          ELSE requests_storage
    /\ LET tasks == IF r \in DOMAIN tasks_storage THEN tasks_storage[r] ELSE <<>>
       IN  sim' = [sim EXCEPT ![r] = NextSuspension(0, Len(tasks), clocked)]
    /\ since' = [since EXCEPT ![r] = 0]
    /\ response' = NoResponse
    /\ UNCHANGED <<tasks_storage, age, uuid_count, hash_seed, store_vars>>

\* A variant of sim_task_step that does not wait for its sleep to end.
sim_task_step_NoWait(r, clocked) ==
    /\ sim[r].pc = "sleep_task"
    /\ LET i == sim[r].i
           n == Len(tasks_storage[r])
       IN  /\ tasks_storage' =
                 [tasks_storage EXCEPT ![r][i + 1].status = TaskTransition(i, n, r)]
           /\ sim' = [sim EXCEPT ![r] = NextSuspension(i + 1, n, clocked)]
    /\ since' = [since EXCEPT ![r] = 0]
    /\ response' = NoResponse
    /\ UNCHANGED <<requests_storage, age, uuid_count, hash_seed, store_vars>>

\* A variant of sim_task_step that, writing the last task, puts a failed one back
\* to pending and runs the loop again from it.
sim_task_step_Retry(r, clocked) ==
    /\ Resumable(r, "sleep_task")
    /\ LET i == sim[r].i
           n == Len(tasks_storage[r])
           new == TaskTransition(i, n, r)
       IN  IF i = n - 1 /\ tasks_storage[r][i + 1].status = "failed"
           THEN /\ tasks_storage' = [tasks_storage EXCEPT ![r][i + 1].status = "pending"]
                /\ sim' = [sim EXCEPT ![r] = [pc |-> "done", i |-> n, n |-> n, timer |-> 0]]
           ELSE /\ tasks_storage' = [tasks_storage EXCEPT ![r][i + 1].status = new]
                /\ sim' = [sim EXCEPT ![r] =
                             IF new = "failed"
                             THEN [pc |-> "sleep_task", i |-> i, n |-> n,
                                   timer |-> asyncio_sleep(TASK_DELAY, clocked)]
                             ELSE NextSuspension(i + 1, n, clocked)]
    /\ since' = [since EXCEPT ![r] = 0]
    /\ response' = NoResponse
    /\ UNCHANGED <<requests_storage, age, uuid_count, hash_seed, store_vars>>

\* A variant of sim_task_step that writes the task at its index in the list of
\* every request, as if the simulators shared one list.
sim_task_step_SharedList(r, clocked) ==
    /\ Resumable(r, "sleep_task")
    /\ LET i == sim[r].i
           n == Len(tasks_storage[r])
       IN  /\ tasks_storage' =
                 [q \in DOMAIN tasks_storage |->
                    IF i < Len(tasks_storage[q])
                    THEN [tasks_storage[q] EXCEPT ![i + 1].status = TaskTransition(i, n, r)]
                    ELSE tasks_storage[q]]
           /\ sim' = [sim EXCEPT ![r] = NextSuspension(i + 1, n, clocked)]
    /\ since' = [since EXCEPT ![r] = 0]
    /\ response' = NoResponse
    /\ UNCHANGED <<requests_storage, age, uuid_count, hash_seed, store_vars>>

\* A variant of sim_task_step that, from the third task on, also completes the
\* task before the one it writes.
sim_task_step_ClosesPrevious(r, clocked) ==
    /\ Resumable(r, "sleep_task")
    /\ LET i == sim[r].i
           n == sim[r].n
       IN  /\ tasks_storage' =
                 IF r \in DOMAIN tasks_storage
                 THEN IF i >= 2
                      THEN [tasks_storage EXCEPT ![r][i + 1].status = TaskTransition(i, n, r),
                                                 ![r][i].status = "completed"]
                      ELSE [tasks_storage EXCEPT ![r][i + 1].status = TaskTransition(i, n, r)]
                 ELSE tasks_storage
           /\ sim' = [sim EXCEPT ![r] = NextSuspension(i + 1, n, clocked)]
    /\ since' = [since EXCEPT ![r] = 0]
    /\ response' = NoResponse
    /\ UNCHANGED <<requests_storage, age, uuid_count, hash_seed, store_vars>>

\* After the sleep of iteration i: write the status of task i, then go on to the
\* next iteration's sleep or finish. The write goes to the list object the
\* coroutine read into `tasks`: it shows in tasks_storage as long as the list is
\* still stored there.
sim_task_step(r, clocked) ==
    /\ Resumable(r, "sleep_task")
    /\ LET i == sim[r].i
           n == sim[r].n
       IN  /\ tasks_storage' =
                 IF r \in DOMAIN tasks_storage
                 THEN [tasks_storage EXCEPT ![r][i + 1].status = TaskTransition(i, n, r)]
                 ELSE tasks_storage
           /\ sim' = [sim EXCEPT ![r] = NextSuspension(i + 1, n, clocked)]
    /\ since' = [since EXCEPT ![r] = 0]
    /\ response' = NoResponse
    /\ UNCHANGED <<requests_storage, age, uuid_count, hash_seed, store_vars>>

\* One step of every simulate_processing coroutine that can take one.
simulate_processing(r, clocked) ==
    \/ sim_start(r, clocked)
    \/ sim_mark_ready(r, clocked)
    \/ sim_task_step(r, clocked)

\* ---------------------------------------------------------------- eviction
\* The entry of a request leaves the registry (its record and its task list)
\* while its simulator may still be running. main.py has no such operation; the
\* specification describes it as something the simulator has to tolerate.
evict(r) ==
    /\ r \in DOMAIN requests_storage
    /\ requests_storage' = [q \in DOMAIN requests_storage \ {r} |-> requests_storage[q]]
    /\ tasks_storage' = [q \in DOMAIN tasks_storage \ {r} |-> tasks_storage[q]]
    /\ response' = NoResponse
    /\ UNCHANGED <<sim, age, since, uuid_count, hash_seed, store_vars>>

\* -------------------------------------------------------------------- time
Running(r) == sim[r].pc # "done"

\* One time unit passes: every running sleep has one unit less to go.
Tick ==
    /\ \E r \in DOMAIN sim : Running(r) /\ (sim[r].timer > 0 \/ since[r] < INITIAL_DELAY)
    /\ sim' = [r \in DOMAIN sim |-> [sim[r] EXCEPT !.timer = Max(sim[r].timer - 1, 0)]]
    /\ age' = [r \in DOMAIN age |-> Min(age[r] + 1, INITIAL_DELAY)]
    /\ since' = [r \in DOMAIN since |->
                    IF Running(r) THEN Min(since[r] + 1, INITIAL_DELAY) ELSE since[r]]
    /\ response' = NoResponse
    /\ UNCHANGED <<requests_storage, tasks_storage, uuid_count, hash_seed, store_vars>>

\* ------------------------------------------------------------ read handlers
\* GET /api/requests/{request_id}/status
get_request_status_result(request_id) ==
    IF request_id \notin DOMAIN requests_storage
    THEN HTTPException("get_request_status", request_id, 404, "Request not found")
    ELSE [op |-> "get_request_status", arg |-> request_id, code |-> 200,
          body |-> [ready  |-> requests_storage[request_id].ready,
                    status |-> requests_storage[request_id].status]]

\* A variant of get_request_tasks_result that tests readiness before membership,
\* reading a missing request as not ready.
get_request_tasks_result_ReadyFirst(request_id) ==
    IF request_id \notin DOMAIN requests_storage \/ ~requests_storage[request_id].ready
    THEN HTTPException("get_request_tasks", request_id, 400, "Request not ready yet")
    ELSE [op |-> "get_request_tasks", arg |-> request_id, code |-> 200,
          body |-> [tasks |-> tasks_storage[request_id]]]

\* GET /api/requests/{request_id}/tasks
get_request_tasks_result(request_id) ==
    IF request_id \notin DOMAIN requests_storage
    THEN HTTPException("get_request_tasks", request_id, 404, "Request not found")
    ELSE IF ~requests_storage[request_id].ready
    THEN HTTPException("get_request_tasks", request_id, 400, "Request not ready yet")
    ELSE [op |-> "get_request_tasks", arg |-> request_id, code |-> 200,
          body |-> [tasks |-> IF request_id \in DOMAIN tasks_storage
                              THEN tasks_storage[request_id] ELSE <<>>]]

\* GET /api/requests
list_requests_result ==
    [op |-> "list_requests", arg |-> NoId, code |-> 200,
     body |-> [requests |-> KeysInOrder(DOMAIN requests_storage),
               total    |-> Cardinality(DOMAIN requests_storage)]]

\* GET /api/requests/{request_id}
get_request_details_result(request_id) ==
    IF request_id \notin DOMAIN requests_storage
    THEN HTTPException("get_request_details", request_id, 404, "Request not found")
    ELSE [op |-> "get_request_details", arg |-> request_id, code |-> 200,
          body |-> [request |-> requests_storage[request_id],
                    tasks   |-> IF request_id \in DOMAIN tasks_storage
                                THEN tasks_storage[request_id] ELSE <<>>]]

Reply(result) ==
    /\ response' = result
    /\ UNCHANGED <<requests_storage, tasks_storage, sim, age, since, uuid_count, hash_seed, store_vars>>

\* A variant of get_request_status where polling a request marks it ready.
get_request_status_PollAdvances(request_id) ==
    /\ response' = get_request_status_result(request_id)
    /\ requests_storage' =
          IF request_id \in DOMAIN requests_storage
          THEN [requests_storage EXCEPT ![request_id].ready = TRUE,
                                        ![request_id].status = "ready"]
          ELSE requests_storage
    /\ UNCHANGED <<tasks_storage, sim, age, since, uuid_count, hash_seed, store_vars>>

get_request_status(request_id) == Reply(get_request_status_result(request_id))

get_request_tasks(request_id) == Reply(get_request_tasks_result(request_id))

list_requests == Reply(list_requests_result)

get_request_details(request_id) == Reply(get_request_details_result(request_id))

\* The identifiers a client asks about: every registered one, and one that was
\* never issued.
QueryIds == DOMAIN requests_storage \cup {uuid4(uuid_count)}

\* ============================================================ entity store
\* An Optional value: None is the empty tuple, a value v is <<v>>.
None == <<>>

Some(v) == <<v>>

\* task_statuses and chat_statuses as seeded: id -> label.
TaskStatusTable == (1 :> "Todo") @@ (2 :> "In Progress") @@ (3 :> "Done") @@ (4 :> "Failed")

ChatStatusTable == (1 :> "Active") @@ (2 :> "Archived")

\* A variant of ValidPriorities whose range ends one too far.
ValidPriorities_UpTo4 == {1, 2, 3, 4}

\* The priorities the handlers accept: [1, 2, 3].
ValidPriorities == {1, 2, 3}

\* db.commit() of a write: the clock moves on to the next instant.
Commit ==
    /\ now < MaxWrites
    /\ now' = now + 1

\* A handler that raises: nothing is committed.
Reject(op, arg, status_code, detail) ==
    /\ response' = HTTPException(op, arg, status_code, detail)
    /\ UNCHANGED <<registry_vars, store_vars>>

\* A handler that returns a row.
Return(op, arg, row) ==
    response' = [op |-> op, arg |-> arg, code |-> 200, body |-> row]

\* The identifiers a client sends for a table: every existing one, and the next
\* one its sequence has not issued.
RefIds(table, name) == DOMAIN table \cup {id_seq[name] + 1}

\* The values a client sends for status_id and priority.
StatusInputs == {1, 3, 5}

PriorityInputs == {1, 3, 4}

\* ------------------------------------------------------------- create_user
\* POST /api/users
create_user ==
    /\ Commit
    /\ LET id == id_seq.users + 1
           row == [id |-> id, created_at |-> now, updated_at |-> now]
       IN  /\ users' = (id :> row) @@ users
           /\ id_seq' = [id_seq EXCEPT !.users = id]
           /\ Return("create_user", NoId, row)
    /\ UNCHANGED <<registry_vars, txn, git_projects, agent_chats, agent_tasks>>

\* ---------------------------------------------------------- create_project
ProjectInputs ==
    [name : {"p"}, description : {Some("d")}, user_owner_id : RefIds(users, "users")]

\* POST /api/projects
create_project(project) ==
    IF project.user_owner_id \notin DOMAIN users
    THEN Reject("create_project", NoId, 400, "User not found")
    ELSE /\ Commit
         /\ LET id == id_seq.git_projects + 1
                row == [id |-> id, name |-> project.name,
                        description |-> project.description,
                        user_owner_id |-> project.user_owner_id,
                        created_at |-> now, updated_at |-> now]
            IN  /\ git_projects' = (id :> row) @@ git_projects
                /\ id_seq' = [id_seq EXCEPT !.git_projects = id]
                /\ Return("create_project", NoId, row)
         /\ UNCHANGED <<registry_vars, txn, users, agent_chats, agent_tasks>>

\* ------------------------------------------------------------- create_chat
ChatInputs ==
    [name : {"c"}, project_id : RefIds(git_projects, "git_projects"),
     user_id : RefIds(users, "users"), status_id : {1, 3}]

\* A variant of create_chat that does not look the user up.
create_chat_NoUserCheck(chat) ==
    IF chat.project_id \notin DOMAIN git_projects
    THEN Reject("create_chat", NoId, 400, "Project not found")
    ELSE IF chat.status_id \notin DOMAIN ChatStatusTable
    THEN Reject("create_chat", NoId, 400, "Chat status not found")
    ELSE /\ Commit
         /\ LET id == id_seq.agent_chats + 1
                row == [id |-> id, name |-> chat.name, project_id |-> chat.project_id,
                        user_id |-> chat.user_id, status_id |-> chat.status_id,
                        created_at |-> now, updated_at |-> now]
            IN  /\ agent_chats' = (id :> row) @@ agent_chats
                /\ id_seq' = [id_seq EXCEPT !.agent_chats = id]
                /\ Return("create_chat", NoId, row)
         /\ UNCHANGED <<registry_vars, txn, users, git_projects, agent_tasks>>

\* A variant of create_chat that looks the status up in the task statuses.
create_chat_TaskStatuses(chat) ==
    IF chat.project_id \notin DOMAIN git_projects
    THEN Reject("create_chat", NoId, 400, "Project not found")
    ELSE IF chat.user_id \notin DOMAIN users
    THEN Reject("create_chat", NoId, 400, "User not found")
    ELSE IF chat.status_id \notin DOMAIN TaskStatusTable
    THEN Reject("create_chat", NoId, 400, "Chat status not found")
    ELSE /\ Commit
         /\ LET id == id_seq.agent_chats + 1
                row == [id |-> id, name |-> chat.name, project_id |-> chat.project_id,
                        user_id |-> chat.user_id, status_id |-> chat.status_id,
                        created_at |-> now, updated_at |-> now]
            IN  /\ agent_chats' = (id :> row) @@ agent_chats
                /\ id_seq' = [id_seq EXCEPT !.agent_chats = id]
                /\ Return("create_chat", NoId, row)
         /\ UNCHANGED <<registry_vars, txn, users, git_projects, agent_tasks>>

\* POST /api/chats
create_chat(chat) ==
    IF chat.project_id \notin DOMAIN git_projects
    THEN Reject("create_chat", NoId, 400, "Project not found")
    ELSE IF chat.user_id \notin DOMAIN users
    THEN Reject("create_chat", NoId, 400, "User not found")
    ELSE IF chat.status_id \notin DOMAIN ChatStatusTable
    THEN Reject("create_chat", NoId, 400, "Chat status not found")
    ELSE /\ Commit
         /\ LET id == id_seq.agent_chats + 1
                row == [id |-> id, name |-> chat.name, project_id |-> chat.project_id,
                        user_id |-> chat.user_id, status_id |-> chat.status_id,
                        created_at |-> now, updated_at |-> now]
            IN  /\ agent_chats' = (id :> row) @@ agent_chats
                /\ id_seq' = [id_seq EXCEPT !.agent_chats = id]
                /\ Return("create_chat", NoId, row)
         /\ UNCHANGED <<registry_vars, txn, users, git_projects, agent_tasks>>

\* ------------------------------------------------------- create_agent_task
TaskInputs ==
    [name : {"a"}, description : {None, Some("d")}, status_id : StatusInputs,
     chat_id : RefIds(agent_chats, "agent_chats"), priority : PriorityInputs]

\* A smaller set of payloads, for the specifications that exercise other
\* handlers: one payload for each answer of create_agent_task.
SmallTaskInputs ==
    [name : {"a"}, description : {Some("d")}, status_id : {DONE_STATUS_ID, 5},
     chat_id : RefIds(agent_chats, "agent_chats"), priority : {1, 4}]

\* A create handler that stamps a task created in Done.
NewTaskRow_StampsDone(id, task) ==
    [id |-> id, name |-> task.name, description |-> task.description,
     status_id |-> task.status_id, chat_id |-> task.chat_id, priority |-> task.priority,
     created_at |-> now, updated_at |-> now,
     completed_at |-> IF task.status_id = DONE_STATUS_ID THEN Some(now) ELSE None]

\* A variant of NewTaskRow whose completed_at takes the clock as the other two
\* timestamps do.
NewTaskRow_ServerDefault(id, task) ==
    [id |-> id, name |-> task.name, description |-> task.description,
     status_id |-> task.status_id, chat_id |-> task.chat_id, priority |-> task.priority,
     created_at |-> now, updated_at |-> now, completed_at |-> Some(now)]

\* A variant of NewTaskRow that leaves the priority to the column's default, 2.
NewTaskRow_DefaultPriority(id, task) ==
    [id |-> id, name |-> task.name, description |-> task.description,
     status_id |-> task.status_id, chat_id |-> task.chat_id, priority |-> 2,
     created_at |-> now, updated_at |-> now, completed_at |-> None]

\* The row AgentTask(...) inserts: completed_at is not passed and has no default.
NewTaskRow(id, task) ==
    [id |-> id, name |-> task.name, description |-> task.description,
     status_id |-> task.status_id, chat_id |-> task.chat_id, priority |-> task.priority,
     created_at |-> now, updated_at |-> now, completed_at |-> None]

\* A variant of create_agent_task that tests the priority after the commit.
create_agent_task_LatePriorityCheck(task) ==
    IF task.chat_id \notin DOMAIN agent_chats
    THEN Reject("create_agent_task", NoId, 400, "Chat not found")
    ELSE IF task.status_id \notin DOMAIN TaskStatusTable
    THEN Reject("create_agent_task", NoId, 400, "Task status not found")
    ELSE /\ Commit
         /\ LET id == id_seq.agent_tasks + 1
                row == NewTaskRow(id, task)
            IN  /\ agent_tasks' = (id :> row) @@ agent_tasks
                /\ id_seq' = [id_seq EXCEPT !.agent_tasks = id]
                /\ response' =
                      IF task.priority \notin ValidPriorities
                      THEN HTTPException("create_agent_task", NoId, 400,
                                         "Priority must be 1 (high), 2 (medium), or 3 (low)")
                      ELSE [op |-> "create_agent_task", arg |-> NoId, code |-> 200, body |-> row]
         /\ UNCHANGED <<registry_vars, txn, users, git_projects, agent_chats>>

\* POST /api/tasks
create_agent_task(task) ==
    IF task.chat_id \notin DOMAIN agent_chats
    THEN Reject("create_agent_task", NoId, 400, "Chat not found")
    ELSE IF task.status_id \notin DOMAIN TaskStatusTable
    THEN Reject("create_agent_task", NoId, 400, "Task status not found")
    ELSE IF task.priority \notin ValidPriorities
    THEN Reject("create_agent_task", NoId, 400, "Priority must be 1 (high), 2 (medium), or 3 (low)")
    ELSE /\ Commit
         /\ LET id == id_seq.agent_tasks + 1
                row == NewTaskRow(id, task)
            IN  /\ agent_tasks' = (id :> row) @@ agent_tasks
                /\ id_seq' = [id_seq EXCEPT !.agent_tasks = id]
                /\ Return("create_agent_task", NoId, row)
         /\ UNCHANGED <<registry_vars, txn, users, git_projects, agent_chats>>

\* ------------------------------------------------------- update_agent_task
\* A field of AgentTaskUpdate: left out of the payload, or supplied (None counts
\* as supplied: exclude_unset keeps it).
Unset == [set |-> FALSE, val |-> None]

Supplied(v) == [set |-> TRUE, val |-> v]

\* The values a client supplies for each field of the payload.
NameValues == {Supplied(None), Supplied(Some("b"))}

DescriptionValues == {Supplied(None), Supplied(Some("d"))}

StatusValues == {Supplied(None)} \cup {Supplied(Some(v)) : v \in StatusInputs}

PriorityValues == {Supplied(None)} \cup {Supplied(Some(v)) : v \in PriorityInputs}

\* The payload {}: no field supplied.
NoFields == [name |-> Unset, description |-> Unset, status_id |-> Unset, priority |-> Unset]

\* The payloads a client sends: those that supply nothing, one field, or the two
\* validated fields together.
UpdateInputs ==
    {NoFields}
    \cup {[NoFields EXCEPT !.name = v] : v \in NameValues}
    \cup {[NoFields EXCEPT !.description = v] : v \in DescriptionValues}
    \cup {[NoFields EXCEPT !.status_id = v] : v \in StatusValues}
    \cup {[NoFields EXCEPT !.priority = v] : v \in PriorityValues}
    \cup {[NoFields EXCEPT !.status_id = v, !.priority = w] :
             v \in StatusValues, w \in PriorityValues}

\* update_data["status_id"] == 3
SetsDone(task_update) ==
    task_update.status_id.set /\ task_update.status_id.val = Some(DONE_STATUS_ID)

\* A variant of UpdatedTaskRow whose loop runs over the fields of the payload
\* only, leaving out the completed_at the handler added.
UpdatedTaskRow_NoStamp(row, task_update) ==
    LET set == [row EXCEPT
                    !.name = IF task_update.name.set THEN task_update.name.val[1] ELSE @,
                    !.description =
                        IF task_update.description.set THEN task_update.description.val ELSE @,
                    !.status_id =
                        IF task_update.status_id.set THEN task_update.status_id.val[1] ELSE @,
                    !.priority =
                        IF task_update.priority.set THEN task_update.priority.val[1] ELSE @]
    IN  IF set = row THEN row ELSE [set EXCEPT !.updated_at = now]

\* A variant of UpdatedTaskRow that clears completed_at when the payload supplies
\* a status other than Done.
UpdatedTaskRow_ClearsOnReopen(row, task_update) ==
    LET set == [row EXCEPT
                    !.name = IF task_update.name.set THEN task_update.name.val[1] ELSE @,
                    !.description =
                        IF task_update.description.set THEN task_update.description.val ELSE @,
                    !.status_id =
                        IF task_update.status_id.set THEN task_update.status_id.val[1] ELSE @,
                    !.priority =
                        IF task_update.priority.set THEN task_update.priority.val[1] ELSE @,
                    !.completed_at = IF SetsDone(task_update) THEN Some(now)
                                     ELSE IF task_update.status_id.set THEN None
                                     ELSE @]
    IN  IF set = row THEN row ELSE [set EXCEPT !.updated_at = now]

\* A variant of UpdatedTaskRow that stamps completed_at only when the task was
\* not in Done before.
UpdatedTaskRow_StampsOnce(row, task_update) ==
    LET set == [row EXCEPT
                    !.name = IF task_update.name.set THEN task_update.name.val[1] ELSE @,
                    !.description =
                        IF task_update.description.set THEN task_update.description.val ELSE @,
                    !.status_id =
                        IF task_update.status_id.set THEN task_update.status_id.val[1] ELSE @,
                    !.priority =
                        IF task_update.priority.set THEN task_update.priority.val[1] ELSE @,
                    !.completed_at =
                        IF SetsDone(task_update) /\ row.status_id # DONE_STATUS_ID
                        THEN Some(now) ELSE @]
    IN  IF set = row THEN row ELSE [set EXCEPT !.updated_at = now]

\* A variant of UpdatedTaskRow that writes the description of the payload whether
\* it was supplied or not (an unset description reads as None).
UpdatedTaskRow_WritesUnset(row, task_update) ==
    LET set == [row EXCEPT
                    !.name = IF task_update.name.set THEN task_update.name.val[1] ELSE @,
                    !.description = task_update.description.val,
                    !.status_id =
                        IF task_update.status_id.set THEN task_update.status_id.val[1] ELSE @,
                    !.priority =
                        IF task_update.priority.set THEN task_update.priority.val[1] ELSE @,
                    !.completed_at = IF SetsDone(task_update) THEN Some(now) ELSE @]
    IN  IF set = row THEN row ELSE [set EXCEPT !.updated_at = now]

\* The setattr loop over update_data, completed_at included when it was added.
\* updated_at takes the clock when the UPDATE changes a column.
UpdatedTaskRow(row, task_update) ==
    LET set == [row EXCEPT
                    !.name = IF task_update.name.set THEN task_update.name.val[1] ELSE @,
                    !.description =
                        IF task_update.description.set THEN task_update.description.val ELSE @,
                    !.status_id =
                        IF task_update.status_id.set THEN task_update.status_id.val[1] ELSE @,
                    !.priority =
                        IF task_update.priority.set THEN task_update.priority.val[1] ELSE @,
                    !.completed_at = IF SetsDone(task_update) THEN Some(now) ELSE @]
    IN  IF set = row THEN row ELSE [set EXCEPT !.updated_at = now]

\* A variant of update_agent_task that validates the priority after it has
\* written and committed the other fields.
update_agent_task_LateValidation(task_id, task_update) ==
    IF task_id \notin DOMAIN agent_tasks
    THEN Reject("update_agent_task", task_id, 404, "Task not found")
    ELSE IF /\ task_update.status_id.set
            /\ \/ task_update.status_id.val = None
               \/ task_update.status_id.val[1] \notin DOMAIN TaskStatusTable
    THEN Reject("update_agent_task", task_id, 400, "Task status not found")
    ELSE IF task_update.name.set /\ task_update.name.val = None
    THEN Reject("update_agent_task", task_id, 500, "Internal Server Error")
    ELSE LET bad == /\ task_update.priority.set
                    /\ \/ task_update.priority.val = None
                       \/ task_update.priority.val[1] \notin ValidPriorities
             row == UpdatedTaskRow(agent_tasks[task_id],
                                   IF bad THEN [task_update EXCEPT !.priority = Unset]
                                   ELSE task_update)
         IN  /\ agent_tasks' = [agent_tasks EXCEPT ![task_id] = row]
             /\ response' =
                   IF bad
                   THEN HTTPException("update_agent_task", task_id, 400,
                                      "Priority must be 1 (high), 2 (medium), or 3 (low)")
                   ELSE [op |-> "update_agent_task", arg |-> task_id, code |-> 200, body |-> row]
             /\ IF row = agent_tasks[task_id] THEN UNCHANGED now ELSE Commit
             /\ UNCHANGED <<registry_vars, txn, users, git_projects, agent_chats, id_seq>>

\* PUT /api/tasks/{task_id}
update_agent_task(task_id, task_update) ==
    IF task_id \notin DOMAIN agent_tasks
    THEN Reject("update_agent_task", task_id, 404, "Task not found")
    ELSE IF /\ task_update.status_id.set
            /\ \/ task_update.status_id.val = None
               \/ task_update.status_id.val[1] \notin DOMAIN TaskStatusTable
    THEN Reject("update_agent_task", task_id, 400, "Task status not found")
    ELSE IF /\ task_update.priority.set
            /\ \/ task_update.priority.val = None
               \/ task_update.priority.val[1] \notin ValidPriorities
    THEN Reject("update_agent_task", task_id, 400, "Priority must be 1 (high), 2 (medium), or 3 (low)")
    ELSE IF task_update.name.set /\ task_update.name.val = None
    THEN \* db.commit() raises on the NOT NULL column; the session is closed unsaved.
         Reject("update_agent_task", task_id, 500, "Internal Server Error")
    ELSE LET row == UpdatedTaskRow(agent_tasks[task_id], task_update)
         IN  /\ agent_tasks' = [agent_tasks EXCEPT ![task_id] = row]
             /\ Return("update_agent_task", task_id, row)
             /\ IF row = agent_tasks[task_id] THEN UNCHANGED now ELSE Commit
             /\ UNCHANGED <<registry_vars, txn, users, git_projects, agent_chats, id_seq>>

\* ------------------------------------------------------ store read handlers
\* db.query(T).filter(T.id == id).first(), and the 404 of a handler that finds
\* no row.
Lookup(op, table, id, detail) ==
    IF id \notin DOMAIN table
    THEN HTTPException(op, id, 404, detail)
    ELSE [op |-> op, arg |-> id, code |-> 200, body |-> table[id]]

\* db.query(T).all() over the rows that pass keep. The answer is a list in the
\* database's order; the model keeps which rows it holds.
Rows(op, arg, table, keep) ==
    [op |-> op, arg |-> arg, code |-> 200, body |-> [rows |-> {table[id] : id \in keep}]]

\* The rows of a status table.
StatusRows(table) == [id \in DOMAIN table |-> [id |-> id, label |-> table[id]]]

\* GET /api/users
get_users_result == Rows("get_users", NoId, users, DOMAIN users)

\* GET /api/users/{user_id}
get_user_result(user_id) == Lookup("get_user", users, user_id, "User not found")

\* `if user_id:` the filter applies to a user_id that is given and is not 0.
Truthy(user_id) == user_id # None /\ user_id[1] # 0

\* GET /api/projects?user_id=
get_projects_result(user_id) ==
    Rows("get_projects", user_id, git_projects,
         IF Truthy(user_id)
         THEN {p \in DOMAIN git_projects : git_projects[p].user_owner_id = user_id[1]}
         ELSE DOMAIN git_projects)

\* GET /api/projects/{project_id}
get_project_result(project_id) ==
    Lookup("get_project", git_projects, project_id, "Project not found")

\* GET /api/chat-statuses
get_chat_statuses_result ==
    Rows("get_chat_statuses", NoId, StatusRows(ChatStatusTable), DOMAIN ChatStatusTable)

\* GET /api/chat-statuses/{status_id}
get_chat_status_result(status_id) ==
    Lookup("get_chat_status", StatusRows(ChatStatusTable), status_id, "Chat status not found")

\* GET /api/task-statuses
get_task_statuses_result ==
    Rows("get_task_statuses", NoId, StatusRows(TaskStatusTable), DOMAIN TaskStatusTable)

\* GET /api/task-statuses/{status_id}
get_task_status_result(status_id) ==
    Lookup("get_task_status", StatusRows(TaskStatusTable), status_id, "Task status not found")

\* GET /api/chats
get_chats_result == Rows("get_chats", NoId, agent_chats, DOMAIN agent_chats)

\* GET /api/chats/{chat_id}
get_chat_result(chat_id) == Lookup("get_chat", agent_chats, chat_id, "Chat not found")

\* GET /api/tasks
get_agent_tasks_result == Rows("get_agent_tasks", NoId, agent_tasks, DOMAIN agent_tasks)

\* GET /api/tasks/{task_id}
get_agent_task_result(task_id) ==
    Lookup("get_agent_task", agent_tasks, task_id, "Task not found")

\* A read handler returns; it has written nothing and its session is closed.
StoreReply(result) ==
    /\ response' = result
    /\ UNCHANGED <<registry_vars, store_vars>>

get_users == StoreReply(get_users_result)

get_user(user_id) == StoreReply(get_user_result(user_id))

get_projects(user_id) == StoreReply(get_projects_result(user_id))

get_project(project_id) == StoreReply(get_project_result(project_id))

get_chat_statuses == StoreReply(get_chat_statuses_result)

get_chat_status(status_id) == StoreReply(get_chat_status_result(status_id))

get_task_statuses == StoreReply(get_task_statuses_result)

get_task_status(status_id) == StoreReply(get_task_status_result(status_id))

get_chats == StoreReply(get_chats_result)

get_chat(chat_id) == StoreReply(get_chat_result(chat_id))

get_agent_tasks == StoreReply(get_agent_tasks_result)

\* A variant of get_agent_task that marks the task it returns as just read.
get_agent_task_Touches(task_id) ==
    /\ response' = get_agent_task_result(task_id)
    /\ agent_tasks' = IF task_id \in DOMAIN agent_tasks
                      THEN [agent_tasks EXCEPT ![task_id].updated_at = now]
                      ELSE agent_tasks
    /\ UNCHANGED <<registry_vars, txn, users, git_projects, agent_chats, id_seq, now>>

get_agent_task(task_id) == StoreReply(get_agent_task_result(task_id))

\* The user_id a client sends to GET /api/projects: none, 0, every user and one
\* identifier that is no user's.
OwnerFilters == {None} \cup {Some(v) : v \in {0} \cup RefIds(users, "users")}

\* The update payloads sent while the read handlers are exercised.
SmallUpdateInputs ==
    {[NoFields EXCEPT !.name = Supplied(Some("b"))],
     [NoFields EXCEPT !.status_id = Supplied(Some(DONE_STATUS_ID))]}

\* --------------------------------------------------------- clear_user_data
\* The rows of a table other than those under the identifiers in gone.
Remaining(table, gone) == [id \in DOMAIN table \ gone |-> table[id]]

\* What the script returns.
Returned(op, arg, value) ==
    [op |-> op, arg |-> arg, code |-> 0, body |-> [returned |-> value]]

\* user_projects / project_ids: the projects user_id owns.
UserProjectIds(user_id) ==
    {p \in DOMAIN git_projects : git_projects[p].user_owner_id = user_id}

\* user_chats / chat_ids: the chats of those projects.
ProjectChatIds(project_ids) ==
    {c \in DOMAIN agent_chats : agent_chats[c].project_id \in project_ids}

\* The chats the four DELETE statements remove for user_id.
ClearedChatIds(user_id) == ProjectChatIds(UserProjectIds(user_id))

\* setup_default_user.py --clear: the DELETE statements run in one transaction,
\* tasks, chats, projects, user. The tables declare their foreign keys; whether
\* a DELETE that leaves a referencing row behind is refused depends on the
\* database behind DATABASE_URL, so both outcomes are possible: the statement
\* raises and the session is closed uncommitted (returns False), or the
\* transaction commits (returns True).
clear_user_data(user_id) ==
    LET project_ids == UserProjectIds(user_id)
        chat_ids == ClearedChatIds(user_id)
        task_ids == {t \in DOMAIN agent_tasks : agent_tasks[t].chat_id \in chat_ids}
        tasks_left == Remaining(agent_tasks, task_ids)
        chats_left == Remaining(agent_chats, chat_ids)
        \* DELETE FROM users: a chat that is left still names the user.
        refused == \E c \in DOMAIN chats_left : chats_left[c].user_id = user_id
    IN  \/ /\ refused
           /\ response' = Returned("clear_user_data", user_id, FALSE)
           /\ UNCHANGED <<registry_vars, store_vars>>
        \/ /\ agent_tasks' = tasks_left
           /\ agent_chats' = chats_left
           /\ git_projects' = Remaining(git_projects, project_ids)
           /\ users' = Remaining(users, {user_id})
           /\ response' = Returned("clear_user_data", user_id, TRUE)
           /\ UNCHANGED <<registry_vars, txn, id_seq, now>>

\* ------------------------------------------------ clear_user_data_internal
\* The session before and after a clearing run: no transaction open.
NoTxn ==
    [pc |-> "idle", user_id |-> NoId, project_ids |-> {}, chat_ids |-> {},
     deleted |-> [agent_tasks |-> {}, agent_chats |-> {}, git_projects |-> {}, users |-> {}]]

\* What the run ends with: it returns, or re-raises the exception of the
\* statement that failed.
Ended(user_id, raised, statement) ==
    [op |-> "clear_user_data_internal", arg |-> user_id, code |-> 0,
     body |-> [raised |-> raised, statement |-> statement]]

\* The statement that follows the two queries: the DELETEs of tasks and chats
\* are skipped when the user owns no project, that of tasks when those
\* projects have no chat.
FirstDelete(project_ids, chat_ids) ==
    IF project_ids = {} THEN "delete_projects"
    ELSE IF chat_ids = {} THEN "delete_chats"
    ELSE "delete_tasks"

\* A step of the run other than its last leaves the tables as committed.
InTransaction(session) ==
    /\ txn' = session
    /\ response' = NoResponse
    /\ UNCHANGED <<registry_vars, users, git_projects, agent_chats, agent_tasks, id_seq, now>>

\* The two queries: the projects the user owns and the chats of those projects.
clear_begin(user_id) ==
    /\ txn.pc = "idle"
    /\ LET project_ids == UserProjectIds(user_id)
           chat_ids == ProjectChatIds(project_ids)
       IN  InTransaction([NoTxn EXCEPT !.pc = FirstDelete(project_ids, chat_ids),
                                       !.user_id = user_id,
                                       !.project_ids = project_ids,
                                       !.chat_ids = chat_ids])

\* db.query(AgentTask).filter(AgentTask.chat_id.in_(chat_ids)).delete()
clear_delete_tasks ==
    /\ txn.pc = "delete_tasks"
    /\ InTransaction([txn EXCEPT
          !.pc = "delete_chats",
          !.deleted.agent_tasks =
              {t \in DOMAIN agent_tasks : agent_tasks[t].chat_id \in txn.chat_ids}])

\* db.query(AgentChat).filter(AgentChat.project_id.in_(project_ids)).delete()
clear_delete_chats ==
    /\ txn.pc = "delete_chats"
    /\ InTransaction([txn EXCEPT
          !.pc = "delete_projects",
          !.deleted.agent_chats =
              {c \in DOMAIN agent_chats : agent_chats[c].project_id \in txn.project_ids}])

\* db.query(GitProject).filter(GitProject.user_owner_id == user_id).delete()
clear_delete_projects ==
    /\ txn.pc = "delete_projects"
    /\ InTransaction([txn EXCEPT !.pc = "delete_users",
                                 !.deleted.git_projects = UserProjectIds(txn.user_id)])

\* db.query(User).filter(User.id == user_id).delete()
clear_delete_users ==
    /\ txn.pc = "delete_users"
    /\ InTransaction([txn EXCEPT !.pc = "commit",
                                 !.deleted.users = {txn.user_id} \cap DOMAIN users])

\* db.commit(): the four DELETEs take effect together.
clear_commit ==
    /\ txn.pc = "commit"
    /\ agent_tasks' = Remaining(agent_tasks, txn.deleted.agent_tasks)
    /\ agent_chats' = Remaining(agent_chats, txn.deleted.agent_chats)
    /\ git_projects' = Remaining(git_projects, txn.deleted.git_projects)
    /\ users' = Remaining(users, txn.deleted.users)
    /\ txn' = NoTxn
    /\ response' = Ended(txn.user_id, FALSE, "none")
    /\ UNCHANGED <<registry_vars, id_seq, now>>

\* A variant of clear_raise that commits what the transaction has deleted so
\* far before it re-raises.
clear_raise_CommitsFirst ==
    /\ txn.pc # "idle"
    /\ agent_tasks' = Remaining(agent_tasks, txn.deleted.agent_tasks)
    /\ agent_chats' = Remaining(agent_chats, txn.deleted.agent_chats)
    /\ git_projects' = Remaining(git_projects, txn.deleted.git_projects)
    /\ users' = Remaining(users, txn.deleted.users)
    /\ txn' = NoTxn
    /\ response' = Ended(txn.user_id, TRUE, txn.pc)
    /\ UNCHANGED <<registry_vars, id_seq, now>>

\* except Exception: the statement the run has reached (a DELETE or the commit)
\* raises, for a reference it would leave dangling or any other database
\* error; db.rollback() drops what the transaction has deleted, and the
\* exception is raised again.
clear_raise ==
    /\ txn.pc # "idle"
    /\ txn' = NoTxn
    /\ response' = Ended(txn.user_id, TRUE, txn.pc)
    /\ UNCHANGED <<registry_vars, users, git_projects, agent_chats, agent_tasks, id_seq, now>>

clear_user_data_internal ==
    \/ \E user_id \in RefIds(users, "users") : clear_begin(user_id)
    \/ clear_delete_tasks
    \/ clear_delete_chats
    \/ clear_delete_projects
    \/ clear_delete_users
    \/ clear_commit
    \/ clear_raise

\* ----------------------------------------------------------- specifications
\* The registry at start-up: both dicts empty, no coroutine, nothing answered.
InitRegistry ==
    /\ requests_storage = <<>>
    /\ tasks_storage = <<>>
    /\ sim = <<>>
    /\ age = <<>>
    /\ since = <<>>
    /\ uuid_count = 0
    /\ hash_seed \in HashSeeds
    /\ response = NoResponse

Init ==
    /\ InitRegistry
    /\ users = <<>>
    /\ git_projects = <<>>
    /\ agent_chats = <<>>
    /\ agent_tasks = <<>>
    /\ id_seq = [users |-> 0, git_projects |-> 0, agent_chats |-> 0, agent_tasks |-> 0]
    /\ now = 0
    /\ txn = NoTxn

Reads ==
    \/ \E id \in QueryIds : get_request_status(id)
    \/ \E id \in QueryIds : get_request_tasks(id)
    \/ list_requests
    \/ \E id \in QueryIds : get_request_details(id)

\* The registry with several requests in flight. The clock is not modelled: a
\* sleeping coroutine resumes at any later step, in any order with the others.
Next ==
    \/ \E text \in Texts : submit_request(text, MaxRequests)
    \/ \E r \in DOMAIN sim : simulate_processing(r, FALSE)

Spec == Init /\ [][Next]_vars

\* The same registry with the listing endpoint called between the other steps.
NextList ==
    \/ Next
    \/ list_requests

SpecList == Init /\ [][NextList]_vars

\* The registry under a clock that advances one unit at a time; a coroutine
\* resumes no earlier than its sleep is over.
NextTimed ==
    \/ \E text \in Texts : submit_request(text, MaxTimedRequests)
    \/ \E r \in DOMAIN sim : simulate_processing(r, TRUE)
    \/ Tick

SpecTimed == Init /\ [][NextTimed]_vars

\* The registry with its read handlers (clock not modelled).
NextApi ==
    \/ \E text \in Texts : submit_request(text, MaxApiRequests)
    \/ \E r \in DOMAIN sim : simulate_processing(r, FALSE)
    \/ Reads

SpecApi == Init /\ [][NextApi]_vars

\* The registry when entries can be evicted under a running simulator (clock
\* not modelled); an evicted request still counts towards the bound.
NextEvict ==
    \/ /\ Cardinality(DOMAIN sim) < MaxApiRequests
       /\ \E text \in Texts : submit_request(text, MaxApiRequests)
    \/ \E r \in DOMAIN sim : simulate_processing(r, FALSE)
    \/ \E r \in DOMAIN sim : evict(r)

SpecEvict == Init /\ [][NextEvict]_vars

\* Every identifier submit_request can have issued in a behaviour of SpecApi: each
\* call draws one uuid for the request and one for each of its tasks.
RequestIds == 0..((MaxApiRequests - 1) * (1 + Len(MOCK_TASKS)))

\* The event loop runs every coroutine that is ready to resume: a simulator whose
\* sleep is over is eventually resumed.
EventLoopFairness ==
    \A r \in RequestIds : WF_vars(r \in DOMAIN sim /\ simulate_processing(r, FALSE))

\* The registry with its read handlers under a fair event loop; the client is
\* under no obligation to call anything.
SpecLive == Init /\ [][NextApi]_vars /\ EventLoopFairness

\* The entity store with its status tables seeded and no user data yet; the
\* registry is idle, so one value of its hash seed is enough.
InitStore == Init /\ hash_seed = 0

\* The reply of a store handler reaches the client.
send_response ==
    /\ response # NoResponse
    /\ response' = NoResponse
    /\ UNCHANGED <<registry_vars, store_vars>>

\* The client calls one handler at a time: it reads the reply before its next call.
StoreCalls ==
    \/ create_user
    \/ \E project \in ProjectInputs : create_project(project)
    \/ \E chat \in ChatInputs : create_chat(chat)
    \/ \E task \in TaskInputs : create_agent_task(task)
    \/ \E task_id \in RefIds(agent_tasks, "agent_tasks") :
          \E task_update \in UpdateInputs : update_agent_task(task_id, task_update)

NextStore ==
    \/ response = NoResponse /\ StoreCalls
    \/ send_response

SpecStore == InitStore /\ [][NextStore]_vars

\* The store after create_user, create_project and create_chat have each been
\* called once and answered, as SpecStore reaches it. Instants are only ever
\* compared, so the origin of the clock is free: it is set to leave
\* MaxTaskWrites writes.
InitTasks ==
    LET t0 == MaxWrites - MaxTaskWrites
    IN  /\ InitRegistry
        /\ hash_seed = 0
        /\ users = (1 :> [id |-> 1, created_at |-> t0 - 3, updated_at |-> t0 - 3])
        /\ git_projects = (1 :> [id |-> 1, name |-> "p", description |-> Some("d"),
                                 user_owner_id |-> 1,
                                 created_at |-> t0 - 2, updated_at |-> t0 - 2])
        /\ agent_chats = (1 :> [id |-> 1, name |-> "c", project_id |-> 1, user_id |-> 1,
                                status_id |-> 1,
                                created_at |-> t0 - 1, updated_at |-> t0 - 1])
        /\ agent_tasks = <<>>
        /\ id_seq = [users |-> 1, git_projects |-> 1, agent_chats |-> 1, agent_tasks |-> 0]
        /\ now = t0
        /\ txn = NoTxn

\* The store with the clearing script run against it between calls of the
\* create handlers.
NextClear ==
    \/ /\ response = NoResponse
       /\ \/ create_user
          \/ \E project \in ProjectInputs : create_project(project)
          \/ \E chat \in ChatInputs : create_chat(chat)
          \/ \E task \in SmallTaskInputs : create_agent_task(task)
          \/ \E user_id \in RefIds(users, "users") : clear_user_data(user_id)
    \/ send_response

SpecClear == InitStore /\ [][NextClear]_vars

StoreReads ==
    \/ get_users
    \/ \E user_id \in RefIds(users, "users") : get_user(user_id)
    \/ \E user_id \in OwnerFilters : get_projects(user_id)
    \/ \E project_id \in RefIds(git_projects, "git_projects") : get_project(project_id)
    \/ get_chat_statuses
    \/ \E status_id \in StatusInputs : get_chat_status(status_id)
    \/ get_task_statuses
    \/ \E status_id \in StatusInputs : get_task_status(status_id)
    \/ get_chats
    \/ \E chat_id \in RefIds(agent_chats, "agent_chats") : get_chat(chat_id)
    \/ get_agent_tasks
    \/ \E task_id \in RefIds(agent_tasks, "agent_tasks") : get_agent_task(task_id)

\* The store with its read handlers: a write is called once the last reply has
\* been read, a read at any moment (also right after the reply of a write or of
\* another read).
NextReads ==
    \/ /\ response = NoResponse
       /\ \/ create_user
          \/ \E project \in ProjectInputs : create_project(project)
          \/ \E chat \in ChatInputs : create_chat(chat)
          \/ \E task \in SmallTaskInputs : create_agent_task(task)
          \/ \E task_id \in RefIds(agent_tasks, "agent_tasks") :
                \E task_update \in SmallUpdateInputs : update_agent_task(task_id, task_update)
    \/ StoreReads
    \/ send_response

SpecReads == InitTasks /\ [][NextReads]_vars

\* The store with the clearing run of the setup script taken statement by
\* statement. The create handlers are called while no run is under way, the
\* listings at any moment.
NextClearSteps ==
    \/ /\ response = NoResponse
       /\ txn.pc = "idle"
       /\ \/ create_user
          \/ \E project \in ProjectInputs : create_project(project)
          \/ \E chat \in ChatInputs : create_chat(chat)
          \/ \E task \in SmallTaskInputs : create_agent_task(task)
    \/ response = NoResponse /\ clear_user_data_internal
    \/ get_users
    \/ get_agent_tasks
    \/ send_response

SpecClearSteps == InitStore /\ [][NextClearSteps]_vars

\* createTask and updateTask calls, one at a time.
NextTasks ==
    \/ /\ response = NoResponse
       /\ \/ \E task \in TaskInputs : create_agent_task(task)
          \/ \E task_id \in RefIds(agent_tasks, "agent_tasks") :
                \E task_update \in UpdateInputs : update_agent_task(task_id, task_update)
    \/ send_response

SpecTasks == InitTasks /\ [][NextTasks]_vars

\* ================================================================== claims
Requests == DOMAIN requests_storage

Finished(r) == sim[r].pc = "done"

Terminal(status) == status \in {"completed", "failed"}

TaskIndexes(r) == 0..(Len(tasks_storage[r]) - 1)

\* The status of the task at (0-based) index i of request r.
StatusAt(r, i) == tasks_storage[r][i + 1].status

\* How many tasks of r the simulator has written so far.
Applied(r) ==
    IF sim[r].pc = "done" THEN Len(tasks_storage[r])
    ELSE IF sim[r].pc = "sleep_task" THEN sim[r].i
    ELSE 0

\* ---------------------------------------------------------------------- C1
\* C1 as stated: once the simulator of a request has run all its steps, every
\* task of the request is completed or failed.
C1_AllTerminalWhenFinished ==
    \A r \in Requests : Finished(r) =>
        \A i \in TaskIndexes(r) : Terminal(StatusAt(r, i))

\* C1 amended: once the simulator of a request has run all its steps, every
\* task except the one at index 1 is completed or failed, and the task at
\* index 1 is in_progress; no task is left pending.
C1_TerminalExceptSecond ==
    \A r \in Requests : Finished(r) =>
        \A i \in TaskIndexes(r) :
            IF i = 1 THEN StatusAt(r, i) = "in_progress" ELSE Terminal(StatusAt(r, i))

C1_Witness ==
    \E r \in Requests : Finished(r) /\ Len(tasks_storage[r]) = 7

\* ---------------------------------------------------------------------- C3
TemplateNames == <<"Initialize Project", "Data Processing", "API Integration",
                   "Model Training", "Quality Assurance", "Deployment",
                   "Monitoring Setup", "Documentation">>

\* C3: a request whose text has length L has exactly min(8, 4 + (L mod 4)) tasks,
\* the i-th carrying the name and description of the i-th catalog template, in
\* catalog order; a text of length 3 gives 7 tasks.
C3_TaskPlan ==
    \A r \in Requests :
        LET L == Len(requests_storage[r].request)
            tasks == tasks_storage[r]
            count == IF 4 + (L % 4) < 8 THEN 4 + (L % 4) ELSE 8
        IN  /\ Len(tasks) = count
            /\ L = 3 => Len(tasks) = 7
            /\ \A k \in 1..Len(tasks) :
                  /\ tasks[k].name = TemplateNames[k]
                  /\ tasks[k].description = MOCK_TASKS[k].description
                  /\ MOCK_TASKS[k].name = TemplateNames[k]

C3_Witness ==
    \E r \in Requests :
        /\ Len(requests_storage[r].request) = 3
        /\ Len(tasks_storage[r]) = 7
        /\ tasks_storage[r][7].name = "Monitoring Setup"

\* ---------------------------------------------------------------------- C4
\* C4: as long as the simulator of a request has written no task, the task at
\* index 0 is in_progress and every other task of the request is pending.
C4_InitialStatuses ==
    \A r \in Requests : Applied(r) = 0 =>
        \A i \in TaskIndexes(r) :
            StatusAt(r, i) = (IF i = 0 THEN "in_progress" ELSE "pending")

C4_Witness ==
    \E r \in Requests :
        /\ sim[r].pc = "scheduled"
        /\ response.op = "submit_request" /\ response.body.request_id = r
        /\ Len(tasks_storage[r]) >= 4

\* ---------------------------------------------------------------------- C5
\* A step of submit_request: the only handler that draws uuids.
SubmitStep == uuid_count' # uuid_count

\* C5: a submit stores its request under an identifier that no registered request
\* has, with status processing and ready = false, leaves every registered
\* request and its tasks as they were, returns {request_id, status: processing},
\* and returns before the new request's simulator has taken any step.
C5_SubmitEffect ==
    [][SubmitStep =>
        \E id \in DOMAIN requests_storage' :
            /\ id \notin DOMAIN requests_storage
            /\ DOMAIN requests_storage' = DOMAIN requests_storage \cup {id}
            /\ DOMAIN tasks_storage' = DOMAIN tasks_storage \cup {id}
            /\ requests_storage'[id].status = "processing"
            /\ requests_storage'[id].ready = FALSE
            /\ \A old \in DOMAIN requests_storage :
                  /\ requests_storage'[old] = requests_storage[old]
                  /\ tasks_storage'[old] = tasks_storage[old]
            /\ response'.code = 200
            /\ response'.body = [request_id |-> id, status |-> "processing"]
            /\ sim'[id].pc = "scheduled"
            /\ \A k \in 1..Len(tasks_storage'[id]) :
                  tasks_storage'[id][k].status = (IF k = 1 THEN "in_progress" ELSE "pending")
    ]_vars

\* A second submit has returned while the first request is part-way through.
C5_Witness ==
    /\ response.op = "submit_request"
    /\ \E old \in Requests :
          /\ old # response.body.request_id
          /\ sim[old].pc = "sleep_task"
          /\ requests_storage[old].ready
    /\ ~requests_storage[response.body.request_id].ready

\* ---------------------------------------------------------------------- C6
\* C6: the answer of getTasks(id) is 404 when id is not registered, 400 when it
\* is registered and not ready, and otherwise 200 with the request's current
\* task list; the answer of getStatus(id) is 404 exactly when id is not
\* registered and otherwise 200 with the stored ready flag and status. An
\* unregistered id never gets 400.
C6_ReadAnswers ==
    LET id == response.arg
        known == id \in Requests
    IN  /\ response.op = "get_request_tasks" =>
              /\ ~known => response.code = 404
              /\ (known /\ ~requests_storage[id].ready) => response.code = 400
              /\ (known /\ requests_storage[id].ready) =>
                    /\ response.code = 200
                    /\ response.body = [tasks |-> tasks_storage[id]]
              /\ response.code = 400 => known
        /\ response.op = "get_request_status" =>
              /\ response.code = 404 <=> ~known
              /\ known =>
                    /\ response.code = 200
                    /\ response.body = [ready  |-> requests_storage[id].ready,
                                        status |-> requests_storage[id].status]

\* getTasks answered NotReady for a registered request.
C6_Witness ==
    /\ response.op = "get_request_tasks"
    /\ response.code = 400
    /\ response.arg \in Requests

\* ---------------------------------------------------------------------- C7
\* C7: while fewer than 5 time units have passed since a request was submitted,
\* its ready flag is false, its status is processing and getTasks on it answers
\* NotReady (400); and the simulator's first mutation is to set the flag and the
\* status ready: while the request is not ready no task has been written, and
\* once the initial sleep is behind the simulator the request is ready.
C7_NotReadyBeforeDelay ==
    \A r \in Requests :
        /\ age[r] < 5 =>
              /\ requests_storage[r].ready = FALSE
              /\ requests_storage[r].status = "processing"
              /\ get_request_tasks_result(r).code = 400
        /\ ~requests_storage[r].ready => Applied(r) = 0
        /\ sim[r].pc \in {"sleep_task", "done"} =>
              /\ requests_storage[r].ready = TRUE
              /\ requests_storage[r].status = "ready"

\* A request four time units old, its simulator asleep and the request not ready.
C7_Witness ==
    \E r \in Requests :
        /\ age[r] = 4
        /\ sim[r].pc = "sleep_initial"
        /\ ~requests_storage[r].ready

\* ---------------------------------------------------------------------- C8
\* The status the claim gives the task at index i of n tasks of request r.
C8_Expected(i, n, r) ==
    CASE i = 0 -> "completed"
      [] i = 1 -> "in_progress"
      [] i = n - 1 /\ i \notin {0, 1} ->
            IF PyHash(r) % 4 = 0 THEN "failed" ELSE "completed"
      [] OTHER -> "completed"

\* C8: every task the simulator has written has the status the rule gives its
\* index (completed at 0; in_progress at 1; at the last index, when that is
\* neither 0 nor 1, failed if hash(requestId) mod 4 = 0 and completed otherwise;
\* completed elsewhere), and every task it has not yet written still has the
\* status it was created with.
C8_TransitionRule ==
    \A r \in Requests :
        \A i \in TaskIndexes(r) :
            StatusAt(r, i) =
                IF i < Applied(r) THEN C8_Expected(i, Len(tasks_storage[r]), r)
                ELSE IF i = 0 THEN "in_progress" ELSE "pending"

\* A finished request whose last task failed beside one whose last task completed.
C8_Witness ==
    \E r1, r2 \in Requests :
        /\ Finished(r1) /\ StatusAt(r1, Len(tasks_storage[r1]) - 1) = "failed"
        /\ Finished(r2) /\ StatusAt(r2, Len(tasks_storage[r2]) - 1) = "completed"
        /\ StatusAt(r1, 1) = "in_progress"

\* ---------------------------------------------------------------------- C9
\* The task of r at index i has been written: every write changes the status.
Written(r, i) == StatusAt(r, i) # (IF i = 0 THEN "in_progress" ELSE "pending")

\* The indexes of r whose task differs between this state and the next.
ChangedIndexes(r) ==
    {i \in TaskIndexes(r) : tasks_storage'[r][i + 1] # tasks_storage[r][i + 1]}

\* C9: in every state the written tasks of a request are a prefix of its task
\* list (task i is written before task i+1) and a request with a written task is
\* ready; and every step that writes tasks of a request writes exactly one, the
\* first unwritten one, no sooner than 2 time units after the simulator's
\* previous mutation of that request.
C9_OrderedAndSpaced ==
    /\ [](\A r \in Requests :
            /\ \A i \in TaskIndexes(r) :
                  Written(r, i) =>
                      /\ requests_storage[r].ready
                      /\ \A j \in 0..(i - 1) : Written(r, j)
            /\ age[r] >= since[r])
    /\ [][\A r \in DOMAIN tasks_storage :
            tasks_storage'[r] # tasks_storage[r] =>
                /\ Len(tasks_storage'[r]) = Len(tasks_storage[r])
                /\ \E i \in TaskIndexes(r) :
                      /\ ChangedIndexes(r) = {i}
                      /\ ~Written(r, i)
                      /\ \A j \in 0..(i - 1) : Written(r, j)
                /\ since[r] >= 2
                /\ requests_storage[r].ready
         ]_vars

\* Two tasks written, the third being waited for, one time unit into its sleep.
C9_Witness ==
    \E r \in Requests :
        /\ sim[r].pc = "sleep_task" /\ sim[r].i = 2 /\ sim[r].timer = 1
        /\ Written(r, 1) /\ ~Written(r, 2)

\* --------------------------------------------------------------------- C10
\* C10: once the simulator of a request has run all its steps, no step changes
\* the request's record or any of its tasks, and the simulator stays finished;
\* and a task that is failed or completed has the same status after every step.
C10_NoChangeAfterFinish ==
    [][\A r \in DOMAIN tasks_storage :
          /\ Finished(r) =>
                /\ requests_storage'[r] = requests_storage[r]
                /\ tasks_storage'[r] = tasks_storage[r]
                /\ sim'[r] = sim[r]
          /\ \A i \in TaskIndexes(r) :
                Terminal(StatusAt(r, i)) =>
                    /\ i < Len(tasks_storage'[r])
                    /\ tasks_storage'[r][i + 1].status = StatusAt(r, i)
      ]_vars

\* A finished request with a failed task, while another request is still running
\* and about to be written to.
C10_Witness ==
    \E r1, r2 \in Requests :
        /\ Finished(r1) /\ StatusAt(r1, Len(tasks_storage[r1]) - 1) = "failed"
        /\ sim[r2].pc = "sleep_task"

\* ------------------------------------------------------------------- C2
\* C2 as stated: in every state, completed_at of a task is null exactly when
\* its status is not Done. It fails for a task created directly in Done (null
\* completed_at in Done) and for a task moved out of Done (completed_at kept).
C2_NullIffNotDone ==
    \A id \in DOMAIN agent_tasks :
        (agent_tasks[id].completed_at = None) <=> (agent_tasks[id].status_id # DONE_STATUS_ID)

\* C2 as the code has it: a task is created with a null completed_at whatever
\* its status; afterwards completed_at changes only in an update that leaves the
\* task in Done, which sets it to the time of that update, and every update
\* that moves a task into Done does so. It is never cleared.
C2_StampedOnlyByDoneUpdate ==
    [][\A id \in DOMAIN agent_tasks' :
          LET new == agent_tasks'[id]
          IN  IF id \notin DOMAIN agent_tasks
              THEN new.completed_at = None
              ELSE LET old == agent_tasks[id]
                   IN  /\ \/ new.completed_at = old.completed_at
                          \/ /\ new.status_id = DONE_STATUS_ID
                             /\ new.completed_at = Some(now)
                       /\ (old.status_id # DONE_STATUS_ID /\ new.status_id = DONE_STATUS_ID)
                             => new.completed_at = Some(now)]_vars

\* An update has just moved a task created in another status into Done and
\* stamped it.
C2_Witness ==
    /\ response.op = "update_agent_task"
    /\ response.code = 200
    /\ response.arg \in DOMAIN agent_tasks
    /\ LET row == agent_tasks[response.arg]
       IN  /\ row.status_id = DONE_STATUS_ID
           /\ row.completed_at # None
           /\ row.created_at < row.updated_at
           /\ row.completed_at = Some(row.updated_at)

ReadOps == {"get_request_status", "get_request_tasks", "list_requests", "get_request_details"}

\* C12: a step of a read handler, whether it answers 200 or an error, leaves
\* every request record, every task list and every simulator as they were; and
\* the record or a task of a registered request changes only in a step of that
\* request's simulator.
C12_ReadsChangeNothing ==
    [][/\ response'.op \in ReadOps =>
             /\ requests_storage' = requests_storage
             /\ tasks_storage' = tasks_storage
             /\ sim' = sim
       /\ \A r \in Requests :
             (requests_storage'[r] # requests_storage[r] \/ tasks_storage'[r] # tasks_storage[r])
                => /\ sim'[r] # sim[r]
                   /\ response' = NoResponse]_vars

\* A status poll has just answered "processing" for a request whose simulator
\* is in its initial sleep.
C12_Witness ==
    /\ response.op = "get_request_status"
    /\ response.code = 200
    /\ response.body.status = "processing"
    /\ sim[response.arg].pc = "sleep_initial"

\* ------------------------------------------------------------------- C13
\* C13: every registered request has exactly one simulator, created by the
\* submit that registered it and by no other step; a step of the simulator of
\* a request A leaves the record, the tasks and the simulator of every other
\* request B as they were.
C13_SimulatorsIndependent ==
    /\ [](DOMAIN sim = Requests)
    /\ [][/\ SubmitStep =>
                \E a \in DOMAIN sim' :
                   /\ DOMAIN sim' = DOMAIN sim \cup {a}
                   /\ a \notin DOMAIN sim
                   /\ a = response'.body.request_id
                   /\ sim'[a].pc = "scheduled"
                   /\ \A b \in DOMAIN sim : sim'[b] = sim[b]
          /\ ~SubmitStep => DOMAIN sim' = DOMAIN sim
          /\ \A a \in DOMAIN sim :
                sim'[a] # sim[a] =>
                   \A b \in Requests \ {a} :
                      /\ requests_storage'[b] = requests_storage[b]
                      /\ tasks_storage'[b] = tasks_storage[b]
                      /\ sim'[b] = sim[b]]_vars

\* Two simulators are both inside their loops, at different indexes, one of them
\* further than the other request has tasks written.
C13_Witness ==
    \E a, b \in Requests :
        /\ sim[a].pc = "sleep_task" /\ sim[a].i = 3
        /\ sim[b].pc = "sleep_task" /\ sim[b].i = 1
        /\ Written(a, 2) /\ ~Written(b, 2)

\* ------------------------------------------------------------------- C14
\* C14: a step of the simulator of a request whose registry entry is absent
\* leaves the registry unchanged (the entry is not created again) and is an
\* ordinary step of the coroutine, which goes on to its next suspension or ends.
C14_AbsentEntryNoOp ==
    [][\A r \in DOMAIN sim :
          (sim'[r] # sim[r] /\ r \notin DOMAIN requests_storage) =>
              /\ requests_storage' = requests_storage
              /\ tasks_storage' = tasks_storage
              /\ sim'[r].pc \in {"sleep_initial", "sleep_task", "done"}]_vars

\* A request was evicted before its simulator woke from the initial sleep; the
\* simulator has since run to its end, finding no tasks, and the registry is empty.
C14_Witness ==
    \E r \in DOMAIN sim :
        /\ r \notin DOMAIN requests_storage
        /\ r \notin DOMAIN tasks_storage
        /\ sim[r].pc = "done"
        /\ sim[r].n = 0

\* ------------------------------------------------------------------- C15
\* The step is the answer of an updateTask call with the given status code.
UpdateAnswered(code) ==
    /\ response'.op = "update_agent_task"
    /\ response'.code = code

\* The payloads that supply status_id = 3.
DoneInputs == {u \in UpdateInputs : SetsDone(u)}

C16_OtherUpdatesKeepStamp ==
    [][/\ UpdateAnswered(200) =>
             LET id == response'.arg
             IN  \A u \in UpdateInputs \ DoneInputs :
                    update_agent_task(id, u) =>
                       agent_tasks'[id].completed_at = agent_tasks[id].completed_at
       /\ \A id \in DOMAIN agent_tasks :
             agent_tasks[id].completed_at # None =>
                /\ id \in DOMAIN agent_tasks'
                /\ agent_tasks'[id].completed_at # None]_vars

\* A task that was stamped by an earlier update has just been put back to Todo
\* and still carries its stamp.
C16_Witness ==
    /\ response.op = "update_agent_task"
    /\ response.code = 200
    /\ response.arg \in DOMAIN agent_tasks
    /\ LET row == agent_tasks[response.arg]
       IN  /\ row.status_id = 1
           /\ row.completed_at # None
           /\ row.completed_at[1] < row.updated_at

\* ------------------------------------------------------------------- C17
\* C17 as stated: completed_at of a task changes only in a step that takes the
\* task from a status other than Done to Done; in particular an update that
\* supplies Done on a task already in Done leaves completed_at as it was.
C17_OnlyOnTransition ==
    [][\A id \in DOMAIN agent_tasks \cap DOMAIN agent_tasks' :
          agent_tasks'[id].completed_at # agent_tasks[id].completed_at =>
              /\ agent_tasks[id].status_id # DONE_STATUS_ID
              /\ agent_tasks'[id].status_id = DONE_STATUS_ID]_vars

\* C17 as the code has it: completed_at of a task changes only in a successful
\* update of that task whose payload supplies status_id = 3, and never
\* otherwise; such an update stamps the task again when it is already in Done.
C17_OnlyWhenDoneSupplied ==
    [][/\ \A id \in DOMAIN agent_tasks \cap DOMAIN agent_tasks' :
             agent_tasks'[id].completed_at # agent_tasks[id].completed_at =>
                 /\ UpdateAnswered(200)
                 /\ response'.arg = id
                 /\ \E u \in DoneInputs : update_agent_task(id, u)
       /\ UpdateAnswered(200) =>
             LET id == response'.arg
             IN  \A u \in DoneInputs :
                    (update_agent_task(id, u) /\ agent_tasks[id].status_id = DONE_STATUS_ID) =>
                        /\ agent_tasks'[id].completed_at = Some(now)
                        /\ agent_tasks'[id].completed_at # agent_tasks[id].completed_at]_vars

\* The only task has been written twice since its creation, both times by an
\* update, and the second update, supplying Done, has stamped it.
C17_Witness ==
    /\ response.op = "update_agent_task"
    /\ response.code = 200
    /\ DOMAIN agent_tasks = {response.arg}
    /\ LET row == agent_tasks[response.arg]
       IN  /\ row.status_id = DONE_STATUS_ID
           /\ row.completed_at = Some(row.created_at + 2)
           /\ row.updated_at = row.created_at + 2
           /\ now = row.created_at + 3

\* ------------------------------------------------------------------- C18
\* The payload supplies a status_id that no row of task_statuses has.
UnresolvedStatus(u) ==
    u.status_id.set /\ (u.status_id.val = None \/ u.status_id.val[1] \notin {1, 2, 3, 4})

\* The payload supplies a priority outside {1, 2, 3}.
InvalidPriority(u) ==
    u.priority.set /\ (u.priority.val = None \/ u.priority.val[1] \notin {1, 2, 3})

\* The payloads that updateTask has to refuse with 400, and the others.
InvalidInputs == {u \in UpdateInputs : UnresolvedStatus(u) \/ InvalidPriority(u)}

ValidInputs == UpdateInputs \ InvalidInputs

\* C18: updateTask answers 404 exactly when the task id does not exist; on an
\* existing task it answers 400 exactly when the payload supplies a status_id
\* that does not resolve or a priority outside {1,2,3}; and whenever it does not
\* answer 200, every table of the store is as before, whatever valid fields
\* the payload carries besides.
C18_FailedUpdateChangesNothing ==
    [][response'.op = "update_agent_task" =>
          LET id == response'.arg
          IN  /\ response'.code = 404 <=> id \notin DOMAIN agent_tasks
              /\ (id \in DOMAIN agent_tasks /\ response'.code = 400) =>
                    \A u \in ValidInputs : ~update_agent_task(id, u)
              /\ (id \in DOMAIN agent_tasks /\ response'.code # 400) =>
                    \A u \in InvalidInputs : ~update_agent_task(id, u)
              /\ response'.code # 200 =>
                    /\ agent_tasks' = agent_tasks
                    /\ UNCHANGED store_vars]_vars

\* An update of a task that is not in Done and has no completed_at has just
\* been refused for its priority.
C18_Witness ==
    /\ response.op = "update_agent_task"
    /\ response.code = 400
    /\ response.body.detail = "Priority must be 1 (high), 2 (medium), or 3 (low)"
    /\ response.arg \in DOMAIN agent_tasks
    /\ agent_tasks[response.arg].status_id = 1
    /\ agent_tasks[response.arg].completed_at = None
    /\ agent_tasks[response.arg].updated_at = agent_tasks[response.arg].created_at

\* ------------------------------------------------------------------- C19
\* C19: after a successful updateTask with payload u, each of name,
\* description, status_id and priority holds the supplied value if u supplies
\* it and its prior value if not; id, chat_id and created_at are as before;
\* completed_at is as before unless u supplies Done; every other task and
\* every other table is as before, and no task is added or removed.
C19_OnlySuppliedFieldsChange ==
    [][UpdateAnswered(200) =>
          LET id == response'.arg
              old == agent_tasks[id]
              new == agent_tasks'[id]
          IN  \A u \in ValidInputs :
                 update_agent_task(id, u) =>
                    /\ new.name = (IF u.name.set THEN u.name.val[1] ELSE old.name)
                    /\ new.description =
                          (IF u.description.set THEN u.description.val ELSE old.description)
                    /\ new.status_id =
                          (IF u.status_id.set THEN u.status_id.val[1] ELSE old.status_id)
                    /\ new.priority =
                          (IF u.priority.set THEN u.priority.val[1] ELSE old.priority)
                    /\ new.id = old.id
                    /\ new.chat_id = old.chat_id
                    /\ new.created_at = old.created_at
                    /\ SetsDone(u) \/ new.completed_at = old.completed_at
                    /\ DOMAIN agent_tasks' = DOMAIN agent_tasks
                    /\ \A other \in DOMAIN agent_tasks \ {id} :
                          agent_tasks'[other] = agent_tasks[other]
                    /\ UNCHANGED <<users, git_projects, agent_chats, id_seq>>]_vars

\* Of two tasks, the second has just been updated and the first, which carries
\* a description, is as it was created.
C19_Witness ==
    /\ response.op = "update_agent_task"
    /\ response.code = 200
    /\ response.arg = 2
    /\ DOMAIN agent_tasks = {1, 2}
    /\ agent_tasks[2].updated_at > agent_tasks[2].created_at
    /\ agent_tasks[2].priority = 3
    /\ agent_tasks[1].description # None
    /\ agent_tasks[1].updated_at = agent_tasks[1].created_at

\* ------------------------------------------------------------------- C20
\* The create and update payloads that carry a priority outside {1, 2, 3}.
BadPriorityTasks == {task \in TaskInputs : task.priority \notin {1, 2, 3}}

BadPriorityUpdates == {u \in UpdateInputs : InvalidPriority(u)}

\* C20: in every state every stored task has a priority in {1, 2, 3}; and a
\* createTask or updateTask call whose payload carries any other priority is
\* answered with a client error (4xx) and leaves every table as it was.
C20_PriorityAlwaysValid ==
    /\ [](\A id \in DOMAIN agent_tasks : agent_tasks[id].priority \in {1, 2, 3})
    /\ [][/\ response'.op = "create_agent_task" =>
                \/ response'.code = 400 /\ UNCHANGED store_vars
                \/ \A task \in BadPriorityTasks : ~create_agent_task(task)
          /\ response'.op = "update_agent_task" =>
                \/ response'.code \in {400, 404} /\ UNCHANGED store_vars
                \/ \A u \in BadPriorityUpdates : ~update_agent_task(response'.arg, u)]_vars

\* A createTask carrying a bad priority has just been refused for it, while
\* the table holds tasks of both priorities that clients supply validly.
C20_Witness ==
    /\ response.op = "create_agent_task"
    /\ response.code = 400
    /\ response.body.detail = "Priority must be 1 (high), 2 (medium), or 3 (low)"
    /\ \E a, b \in DOMAIN agent_tasks :
          /\ agent_tasks[a].priority = 1
          /\ agent_tasks[b].priority = 3
          /\ agent_tasks[b].updated_at > agent_tasks[b].created_at

\* ------------------------------------------------------------------- C21
\* C21: in every state reached by calls of the store's handlers every foreign
\* key resolves: a project's owner is a user; a chat's project, user and status
\* are a project, a user and a chat status; a task's chat and status are a chat
\* and a task status.
C21_ForeignKeysResolve ==
    /\ \A id \in DOMAIN git_projects : git_projects[id].user_owner_id \in DOMAIN users
    /\ \A id \in DOMAIN agent_chats :
          /\ agent_chats[id].project_id \in DOMAIN git_projects
          /\ agent_chats[id].user_id \in DOMAIN users
          /\ agent_chats[id].status_id \in DOMAIN ChatStatusTable
    /\ \A id \in DOMAIN agent_tasks :
          /\ agent_tasks[id].chat_id \in DOMAIN agent_chats
          /\ agent_tasks[id].status_id \in DOMAIN TaskStatusTable

\* A task in a chat whose user is not the owner of the chat's project, just
\* after a call with an unknown chat was refused.
C21_Witness ==
    /\ response.code = 400
    /\ response.body.detail = "Chat not found"
    /\ \E t \in DOMAIN agent_tasks :
          LET chat == agent_chats[agent_tasks[t].chat_id]
          IN  chat.user_id # git_projects[chat.project_id].user_owner_id

\* ------------------------------------------------------------------- C22
\* What a successful create leaves in a table: the rows it had, and the returned
\* row under an identifier the table did not have.
Inserted(table, table_after, row) ==
    /\ row.id \notin DOMAIN table
    /\ table_after = (row.id :> row) @@ table

\* project_id, user_id and status_id of a createChat payload all resolve.
ChatResolves(chat) ==
    /\ chat.project_id \in DOMAIN git_projects
    /\ chat.user_id \in DOMAIN users
    /\ chat.status_id \in DOMAIN ChatStatusTable

\* C22: a createChat call is answered 400 when project_id, user_id or status_id
\* does not resolve, and then no table, sequence or clock changes; when all
\* three resolve it is answered 200 and exactly the returned chat is added.
C22_CreateChatValidates ==
    [][response'.op = "create_chat" =>
          \A chat \in ChatInputs :
              create_chat(chat) =>
                  IF ChatResolves(chat)
                  THEN /\ response'.code = 200
                       /\ Inserted(agent_chats, agent_chats', response'.body)
                       /\ UNCHANGED <<users, git_projects, agent_tasks>>
                  ELSE /\ response'.code = 400
                       /\ UNCHANGED store_vars]_vars

\* A call whose project and user exist and whose status does not was refused,
\* after another call had created a chat.
C22_Witness ==
    /\ response.op = "create_chat"
    /\ response.code = 400
    /\ response.body.detail = "Chat status not found"
    /\ agent_chats # <<>>

\* ------------------------------------------------------------------- C23
\* chat_id and status_id of a createTask payload resolve and its priority is one
\* of 1, 2, 3.
TaskAccepted(task) ==
    /\ task.chat_id \in DOMAIN agent_chats
    /\ task.status_id \in DOMAIN TaskStatusTable
    /\ task.priority \in {1, 2, 3}

\* C23: a createTask call is answered 400 when chat_id or status_id does not
\* resolve or priority is outside {1, 2, 3}, and a createProject call when
\* user_owner_id is not a user; a refused call changes no table, sequence or
\* clock, and an accepted one adds exactly the returned row.
C23_CreateTaskAndProjectValidate ==
    [][/\ response'.op = "create_agent_task" =>
             \A task \in TaskInputs :
                 create_agent_task(task) =>
                     IF TaskAccepted(task)
                     THEN /\ response'.code = 200
                          /\ Inserted(agent_tasks, agent_tasks', response'.body)
                          /\ UNCHANGED <<users, git_projects, agent_chats>>
                     ELSE /\ response'.code = 400
                          /\ UNCHANGED store_vars
       /\ response'.op = "create_project" =>
             \A project \in ProjectInputs :
                 create_project(project) =>
                     IF project.user_owner_id \in DOMAIN users
                     THEN /\ response'.code = 200
                          /\ Inserted(git_projects, git_projects', response'.body)
                          /\ UNCHANGED <<users, agent_chats, agent_tasks>>
                     ELSE /\ response'.code = 400
                          /\ UNCHANGED store_vars]_vars

\* A createTask call with an existing chat and status was refused for its
\* priority, with a task and two projects already stored.
C23_Witness ==
    /\ response.op = "create_agent_task"
    /\ response.code = 400
    /\ response.body.detail = "Priority must be 1 (high), 2 (medium), or 3 (low)"
    /\ agent_tasks # <<>>
    /\ Cardinality(DOMAIN git_projects) = 2

\* ------------------------------------------------------------------- C24
\* A run of the clearing script for user_id has just returned value.
Cleared(user_id, value) ==
    /\ response'.op = "clear_user_data"
    /\ response'.arg = user_id
    /\ response'.body.returned = value

\* C24 as stated: after the clearing script has run for user u, u is gone and
\* no project, chat or task that is left names u, or a project or chat that is
\* gone; the chats u opened in other owners' projects are among the rows removed.
C24_DeleteUserCascades ==
    [][\A u \in DOMAIN users :
          clear_user_data(u) =>
              /\ u \notin DOMAIN users'
              /\ \A p \in DOMAIN git_projects' : git_projects'[p].user_owner_id # u
              /\ \A c \in DOMAIN agent_chats' :
                    /\ agent_chats'[c].user_id # u
                    /\ agent_chats'[c].project_id \in DOMAIN git_projects'
              /\ \A t \in DOMAIN agent_tasks' :
                    agent_tasks'[t].chat_id \in DOMAIN agent_chats']_vars

\* C24, what the script does: a run for u that returns True has removed u, the
\* projects u owned, the chats of those projects and the tasks of those chats,
\* and nothing else, so every chat that is left is in a project that is left and
\* every task in a chat that is left; a chat u opened in another owner's project
\* is left. A run returns False only when such a chat exists, and then nothing
\* is removed.
C24_OwnedProjectsCascade ==
    [][\A u \in DOMAIN users :
          /\ (clear_user_data(u) /\ Cleared(u, TRUE)) =>
                /\ users' = Remaining(users, {u})
                /\ git_projects' = Remaining(git_projects, UserProjectIds(u))
                /\ agent_chats' = Remaining(agent_chats, ClearedChatIds(u))
                /\ agent_tasks' =
                      Remaining(agent_tasks,
                                {t \in DOMAIN agent_tasks :
                                    agent_tasks[t].chat_id \in ClearedChatIds(u)})
                /\ \A c \in DOMAIN agent_chats' :
                      agent_chats'[c].project_id \in DOMAIN git_projects'
                /\ \A t \in DOMAIN agent_tasks' :
                      agent_tasks'[t].chat_id \in DOMAIN agent_chats'
          /\ (clear_user_data(u) /\ Cleared(u, FALSE)) =>
                /\ UNCHANGED store_vars
                /\ \E c \in DOMAIN agent_chats :
                      /\ agent_chats[c].user_id = u
                      /\ git_projects[agent_chats[c].project_id].user_owner_id # u]_vars

\* The script has returned True for a user who is gone, and a chat of that user
\* with a task in it is left, in a project of another owner.
C24_Witness ==
    /\ response.op = "clear_user_data"
    /\ response.body.returned
    /\ response.arg \notin DOMAIN users
    /\ \E c \in DOMAIN agent_chats :
          /\ agent_chats[c].user_id = response.arg
          /\ agent_chats[c].project_id \in DOMAIN git_projects
          /\ \E t \in DOMAIN agent_tasks : agent_tasks[t].chat_id = c

\* ------------------------------------------------------------------- C25
\* The last reply is the row a create handler returned.
Created(op) == response.op = op /\ response.code = 200

\* C25: the row a successful createProject, createChat or createTask returns
\* carries the supplied foreign keys and business fields under an identifier no
\* row of its table had, a created task has no completed_at, and a read by that
\* identifier that follows the create returns the same row.
C25_CreateEchoesAndReadsBack ==
    [][/\ response'.op = "create_project" /\ response'.code = 200 =>
             \A project \in ProjectInputs :
                 create_project(project) =>
                     /\ response'.body.id \notin DOMAIN git_projects
                     /\ response'.body.name = project.name
                     /\ response'.body.description = project.description
                     /\ response'.body.user_owner_id = project.user_owner_id
       /\ response'.op = "create_chat" /\ response'.code = 200 =>
             \A chat \in ChatInputs :
                 create_chat(chat) =>
                     /\ response'.body.id \notin DOMAIN agent_chats
                     /\ response'.body.name = chat.name
                     /\ response'.body.project_id = chat.project_id
                     /\ response'.body.user_id = chat.user_id
                     /\ response'.body.status_id = chat.status_id
       /\ response'.op = "create_agent_task" /\ response'.code = 200 =>
             \A task \in SmallTaskInputs :
                 create_agent_task(task) =>
                     /\ response'.body.id \notin DOMAIN agent_tasks
                     /\ response'.body.name = task.name
                     /\ response'.body.description = task.description
                     /\ response'.body.status_id = task.status_id
                     /\ response'.body.chat_id = task.chat_id
                     /\ response'.body.priority = task.priority
                     /\ response'.body.completed_at = None
       /\ (Created("create_project") /\ get_project(response.body.id)) =>
             response'.code = 200 /\ response'.body = response.body
       /\ (Created("create_chat") /\ get_chat(response.body.id)) =>
             response'.code = 200 /\ response'.body = response.body
       /\ (Created("create_agent_task") /\ get_agent_task(response.body.id)) =>
             response'.code = 200 /\ response'.body = response.body]_vars

\* Scenario B: the newest task, of priority 1 and in a chat created after the
\* first, has been read back with completed_at null before any other write.
C25_Witness ==
    /\ response.op = "get_agent_task"
    /\ response.code = 200
    /\ response.arg = id_seq.agent_tasks
    /\ response.body.priority = 1
    /\ response.body.chat_id = 2
    /\ response.body.completed_at = None
    /\ now = response.body.created_at + 1

\* ------------------------------------------------------------------- C26
\* The read handlers that look one row up by its identifier, with the table each
\* reads.
SingleLookups ==
    [get_user |-> users, get_project |-> git_projects,
     get_chat_status |-> ChatStatusTable, get_task_status |-> TaskStatusTable,
     get_chat |-> agent_chats, get_agent_task |-> agent_tasks]

\* The read handlers that list a table.
Listings ==
    {"get_users", "get_projects", "get_chat_statuses", "get_task_statuses",
     "get_chats", "get_agent_tasks"}

\* C26: a read of the entity store changes no table, sequence or clock; a
\* listing is always answered 200, a lookup 404 when its identifier is not in
\* its table and 200 otherwise; and a read that repeats the read before it is
\* answered the same.
C26_StoreReadsChangeNothing ==
    [][/\ response'.op \in Listings =>
             /\ response'.code = 200
             /\ UNCHANGED <<registry_vars, store_vars>>
       /\ response'.op \in DOMAIN SingleLookups =>
             /\ response'.code =
                   IF response'.arg \in DOMAIN SingleLookups[response'.op] THEN 200 ELSE 404
             /\ UNCHANGED <<registry_vars, store_vars>>
       /\ (/\ response'.op \in Listings \cup DOMAIN SingleLookups
           /\ response'.op = response.op
           /\ response'.arg = response.arg) => response' = response]_vars

\* A lookup of a task that does not exist was answered 404, with a task stored.
C26_Witness ==
    /\ response.op = "get_agent_task"
    /\ response.code = 404
    /\ agent_tasks # <<>>

\* ------------------------------------------------------------------- C27
\* The projects user_id owns.
OwnedBy(user_id) ==
    {git_projects[p] : p \in {q \in DOMAIN git_projects :
                                 git_projects[q].user_owner_id = user_id}}

AllProjects == {git_projects[p] : p \in DOMAIN git_projects}

\* C27 as stated: the answer to a listing of projects with a user_id, 0 and the
\* ids of users that own nothing included, holds exactly the projects that user
\* owns, and the answer to a listing without one holds every project.
C27_FilterExact ==
    response.op = "get_projects" =>
        response.body.rows = IF response.arg = None THEN AllProjects
                             ELSE OwnedBy(response.arg[1])

\* C27, what the handler answers: exactly the projects of user_id for every
\* user_id other than 0, and every project for user_id = 0 as for none.
C27_FilterExceptZero ==
    response.op = "get_projects" =>
        response.body.rows = IF response.arg = None \/ response.arg = Some(0)
                             THEN AllProjects
                             ELSE OwnedBy(response.arg[1])

\* A listing with user_id = 0 was answered with a project in it.
C27_Witness ==
    /\ response.op = "get_projects"
    /\ response.arg = Some(0)
    /\ response.body.rows # {}

\* ------------------------------------------------------------------- C28
\* C28: in every state, for every request of the registry, status is "ready"
\* with the flag set or "processing" with the flag clear; and a request that is
\* ready is still registered and ready after every step.
C28_ReadyIffStatusReady ==
    /\ [](\A r \in DOMAIN requests_storage :
             /\ requests_storage[r].status \in {"processing", "ready"}
             /\ requests_storage[r].ready \in BOOLEAN
             /\ requests_storage[r].ready <=> requests_storage[r].status = "ready")
    /\ [][\A r \in DOMAIN requests_storage :
             requests_storage[r].ready =>
                 /\ r \in DOMAIN requests_storage'
                 /\ requests_storage'[r].ready]_vars

\* One request is ready with its simulator finished while another, submitted
\* later, is still processing.
C28_Witness ==
    \E r, q \in DOMAIN requests_storage :
        /\ r < q
        /\ requests_storage[r].ready
        /\ Finished(r)
        /\ ~requests_storage[q].ready
        /\ requests_storage[q].status = "processing"

\* ------------------------------------------------------------------- C29
\* C29: once the simulator of a request has run all its steps, the task at
\* index 1 is in_progress, the last task is failed when hash(request_id) mod 4
\* is 0, and every other task is completed; the simulator stays finished and
\* the task list is not written again.
C29_FinalStatuses ==
    /\ [](\A r \in DOMAIN sim :
             Finished(r) =>
                 \A i \in TaskIndexes(r) :
                     StatusAt(r, i) =
                         IF i = 1 THEN "in_progress"
                         ELSE IF i = Len(tasks_storage[r]) - 1 /\ PyHash(r) % 4 = 0
                         THEN "failed"
                         ELSE "completed")
    /\ [][\A r \in DOMAIN sim :
             Finished(r) => Finished(r)' /\ tasks_storage'[r] = tasks_storage[r]]_vars

\* Two finished requests, one whose last task failed and one whose last task
\* completed, the second task of each still in_progress.
C29_Witness ==
    \E r, q \in DOMAIN sim :
        /\ Finished(r) /\ Finished(q)
        /\ StatusAt(r, Len(tasks_storage[r]) - 1) = "failed"
        /\ StatusAt(q, Len(tasks_storage[q]) - 1) = "completed"
        /\ StatusAt(r, 1) = "in_progress" /\ StatusAt(q, 1) = "in_progress"

\* ------------------------------------------------------------------- C30
\* C30: between any two steps of a handler or a simulator the request store and
\* the task store hold the same identifiers, no step removes an identifier from
\* either, and the total the listing endpoint reports is the number of submits
\* made so far (one simulator is created by each).
C30_StoresInStep ==
    /\ [](/\ DOMAIN requests_storage = DOMAIN tasks_storage
          /\ response.op = "list_requests" =>
                /\ response.body.total = Cardinality(DOMAIN sim)
                /\ Len(response.body.requests) = response.body.total)
    /\ [][/\ DOMAIN requests_storage \subseteq DOMAIN requests_storage'
          /\ DOMAIN tasks_storage \subseteq DOMAIN tasks_storage'
          /\ Cardinality(DOMAIN sim') =
                Cardinality(DOMAIN sim) + (IF response'.op = "submit_request" THEN 1 ELSE 0)]_vars

\* The listing has reported two requests, the second still waiting for its
\* simulator to start.
C30_Witness ==
    /\ response.op = "list_requests"
    /\ response.body.total = 2
    /\ \E r \in DOMAIN sim : sim[r].pc = "scheduled"
    /\ \E r \in DOMAIN sim : Finished(r)

\* ------------------------------------------------------------------- C31
\* The status changes of the task at index i that the claim allows.
AllowedChange(i, from, to) ==
    \/ i = 0 /\ from = "in_progress" /\ to = "completed"
    \/ i = 1 /\ from = "pending" /\ to = "in_progress"
    \/ i >= 2 /\ from = "pending" /\ to \in {"completed", "failed"}

\* C31: no step changes the number or order of a request's tasks or the id,
\* name or description of a task; a step changes the status of a task only from
\* in_progress to completed at index 0, from pending to in_progress at index 1
\* and from pending to completed or failed at index 2 and above, so no task
\* changes status twice; and when the simulator has finished every task has
\* changed status once.
C31_EachTaskWrittenOnce ==
    /\ [][\A r \in Requests :
             \/ tasks_storage'[r] = tasks_storage[r]
             \/ /\ Len(tasks_storage'[r]) = Len(tasks_storage[r])
                /\ \A i \in TaskIndexes(r) :
                      LET before == tasks_storage[r][i + 1]
                          after == tasks_storage'[r][i + 1]
                      IN  /\ after.id = before.id
                          /\ after.name = before.name
                          /\ after.description = before.description
                          /\ \/ after.status = before.status
                             \/ AllowedChange(i, before.status, after.status)]_vars
    /\ [](\A r \in Requests : Finished(r) => \A i \in TaskIndexes(r) : Written(r, i))

\* A finished request of seven tasks whose last task failed.
C31_Witness ==
    \E r \in Requests :
        /\ Finished(r)
        /\ Len(tasks_storage[r]) = 7
        /\ StatusAt(r, 6) = "failed"
        /\ StatusAt(r, 0) = "completed"

\* ------------------------------------------------------------------- C32
\* C32: every request has between 4 and 7 tasks, 4 + (len(text) mod 4) of them,
\* so the cap of 8 does not bind; no task is the eighth catalog template,
\* Documentation; and the index of the last task is at least 3.
C32_FourToSevenTasks ==
    \A r \in Requests :
        LET n == Len(tasks_storage[r])
        IN  /\ n \in 4..7
            /\ n = 4 + (Len(requests_storage[r].request) % 4)
            /\ n < Len(MOCK_TASKS)
            /\ \A i \in TaskIndexes(r) : tasks_storage[r][i + 1].name # "Documentation"
            /\ n - 1 >= 3

\* Two requests, one of four tasks and one of seven.
C32_Witness ==
    \E r, q \in Requests :
        /\ Len(tasks_storage[r]) = 4
        /\ Len(tasks_storage[q]) = 7
        /\ tasks_storage[q][7].name = "Monitoring Setup"

\* ------------------------------------------------------------------- C33
\* C33: a created task, one created in Done included, is stored and returned
\* with completed_at null; and a null completed_at is still null after every
\* step other than a successful update of that task whose payload supplies
\* status_id = Done.
C33_CreateNeverStamps ==
    [][/\ (response'.op = "create_agent_task" /\ response'.code = 200) =>
             /\ response'.body.completed_at = None
             /\ response'.body.id \notin DOMAIN agent_tasks
             /\ agent_tasks'[response'.body.id] = response'.body
       /\ \A id \in DOMAIN agent_tasks :
             \/ agent_tasks[id].completed_at # None
             \/ agent_tasks'[id].completed_at = None
             \/ /\ UpdateAnswered(200)
                /\ response'.arg = id
                /\ \E u \in DoneInputs : update_agent_task(id, u)]_vars

\* A task in Done that was never stamped: created in Done and renamed since.
C33_Witness ==
    /\ response.op = "update_agent_task"
    /\ response.code = 200
    /\ response.body.status_id = DONE_STATUS_ID
    /\ response.body.completed_at = None
    /\ response.body.name = "b"
    /\ agent_tasks[response.arg] = response.body

\* ------------------------------------------------------------------- C34
\* A clearing run has just ended, raising or not.
RunEnds(raised) ==
    /\ response'.op = "clear_user_data_internal"
    /\ response'.body.raised = raised

\* C34: while a clearing run is under way the tables stay as committed; a run
\* that ends without raising removes, in its one commit, the user, the
\* projects the user owns, the chats of those projects and the tasks of those
\* chats; a run that raises, at whichever statement, removes nothing.
C34_AllOrNothing ==
    [][/\ (txn.pc # "idle" /\ txn'.pc # "idle") =>
             UNCHANGED <<users, git_projects, agent_chats, agent_tasks>>
       /\ (txn.pc # "idle" /\ txn'.pc = "idle") => RunEnds(TRUE) \/ RunEnds(FALSE)
       /\ RunEnds(TRUE) => UNCHANGED <<users, git_projects, agent_chats, agent_tasks>>
       /\ RunEnds(FALSE) =>
             LET u == response'.arg
             IN  /\ txn.pc = "commit"
                 /\ users' = Remaining(users, {u})
                 /\ git_projects' = Remaining(git_projects, UserProjectIds(u))
                 /\ agent_chats' = Remaining(agent_chats, ClearedChatIds(u))
                 /\ agent_tasks' =
                       Remaining(agent_tasks,
                                 {t \in DOMAIN agent_tasks :
                                     agent_tasks[t].chat_id \in ClearedChatIds(u)})]_vars

\* The DELETE of the user has raised after those of the tasks, chats and
\* projects had run, and the user still has a project, a chat in it and a task
\* in that chat.
C34_Witness ==
    /\ response.op = "clear_user_data_internal"
    /\ response.body.raised
    /\ response.body.statement = "delete_users"
    /\ response.arg \in DOMAIN users
    /\ \E t \in DOMAIN agent_tasks :
          LET chat == agent_chats[agent_tasks[t].chat_id]
          IN  git_projects[chat.project_id].user_owner_id = response.arg

====
